---- MODULE Spec2Model ----
(***************************************************************************)
(* moysklad-autoproduction: the demand (shipment) processor, its HTTP      *)
(* handlers and the MoySklad client, as a state machine.                   *)
(*                                                                         *)
(* Conventions.                                                            *)
(*  - Option<T>: None is <<>>, Some(x) is <<x>>.                           *)
(*  - Result<T>: [ok |-> TRUE, val |-> x] or [ok |-> FALSE, err |-> e].    *)
(*  - A string that is split on '/' (a href) is the sequence of its        *)
(*    segments; every string splits into at least one segment.             *)
(*  - f64 quantities are whole numbers of one stock unit.                  *)
(*  - An anyhow error is the tuple of the parts of its Display text.       *)
(***************************************************************************)
EXTENDS Integers, Sequences, FiniteSets, TLC

(***************************************************************************)
(* Bounds of the model.                                                    *)
(***************************************************************************)
\* requests accepted for processing in one behaviour
MaxInvocations == 1
\* remote calls that fail in one behaviour
MaxFailures == 1
\* requests accepted for processing in one behaviour of SpecDocuments
MaxDocuments == 2

None == <<>>
Some(x) == <<x>>
IsSome(o) == o # <<>>
Unwrap(o) == o[1]

Ok(v) == [ok |-> TRUE, val |-> v]
Err(e) == [ok |-> FALSE, err |-> e]

(***************************************************************************)
(* Settings (config/settings.rs).                                          *)
(***************************************************************************)
min_stock_threshold == 2
store_name == "Kobrino FBS"
tech_card_field_name == "Techkarta"

(***************************************************************************)
(* rsplit('/').next(): the final segment of a href. rsplit always yields   *)
(* at least one item, so the result is always Some.                        *)
(***************************************************************************)
RsplitNext(href) == Some(href[Len(href)])

EntityHref(kind, id) == <<"entity", kind, id>>

(***************************************************************************)
(* The remote catalogue the behaviours run against: warehouses,            *)
(* organizations, products with attributes, processing plans, demands.     *)
(***************************************************************************)
StoreRef(id, name) == [href |-> EntityHref("store", id), id |-> Some(id), name |-> Some(name)]
S1 == StoreRef("s1", store_name)
S2 == StoreRef("s2", store_name)
\* a row of the store search that carries no id field
SNoId == [href |-> EntityHref("store", "s3"), id |-> None, name |-> Some(store_name)]
Org1 == [href |-> EntityHref("organization", "o1"), id |-> Some("o1"), name |-> Some("Org")]
Org2 == [href |-> EntityHref("organization", "o2"), id |-> Some("o2"), name |-> Some("Org2")]

ProductIds == {"pA", "pB", "pC", "pD", "m1", "m2"}
ProductRef(p) == [href |-> EntityHref("product", p), id |-> Some(p), name |-> Some(p)]

StrAttr(n, s) == [name |-> n, value |-> Some([t |-> "String", v |-> s])]
NumAttr(n, x) == [name |-> n, value |-> Some([t |-> "Number", v |-> x])]
\* an attribute that refers to an entity without a name
RefAttr(n) == [name |-> n, value |-> Some([t |-> "EntityRef", v |-> [name |-> None]])]
\* an attribute without a value
NoValueAttr(n) == [name |-> n, value |-> None]
RemoteProduct(p) ==
  [id |-> p, name |-> p,
   attributes |->
     CASE p = "pA" -> Some(<<StrAttr("Color", "red"), StrAttr(tech_card_field_name, "TC1")>>)
       [] p = "pB" -> Some(<<StrAttr(tech_card_field_name, "")>>)
       [] p = "pC" -> Some(<<NoValueAttr(tech_card_field_name), RefAttr(tech_card_field_name),
                             NumAttr(tech_card_field_name, 7),
                             StrAttr(tech_card_field_name, "TCx")>>)
       [] p = "pD" -> Some(<<StrAttr(tech_card_field_name, "TC2")>>)
       [] p = "m1" -> Some(<<StrAttr("Color", "blue")>>)
       [] p = "m2" -> None]

Material(p, q) == [product |-> ProductRef(p), quantity |-> q]
Plan1 ==
  [id |-> "plan1", name |-> "TC1", href |-> EntityHref("processingplan", "plan1"),
   products |-> Some([rows |-> Some(<<Material("pA", 1)>>)]),
   materials |-> Some([rows |-> Some(<<Material("m1", 1), Material("m2", 2)>>)])]
\* an older plan of the same name, with one material only
Plan1b ==
  [id |-> "plan1b", name |-> "TC1", href |-> EntityHref("processingplan", "plan1b"),
   products |-> Some([rows |-> Some(<<Material("pA", 1)>>)]),
   materials |-> Some([rows |-> Some(<<Material("m1", 1)>>)])]
\* a plan without materials: the materials are absent, their rows are absent,
\* or there are no rows
NoMaterials == {None, Some([rows |-> None]), Some([rows |-> Some(<<>>)])}
Plan2(materials) ==
  [id |-> "plan2", name |-> "TC2", href |-> EntityHref("processingplan", "plan2"),
   products |-> Some([rows |-> Some(<<Material("pD", 1)>>)]),
   materials |-> materials]
\* rows the backend may answer GET /entity/processingplan?filter=name=... with
RemotePlanRows(name) ==
  CASE name = "TC1" -> {Some(<<Plan1b, Plan1>>)}
    [] name = "TC2" -> {Some(<<Plan2(m)>>) : m \in NoMaterials}
    [] OTHER        -> {Some(<<>>), None}

Position(p, q) == [assortment |-> [href |-> EntityHref("product", p), name |-> Some(p)], quantity |-> q]
\* a position whose assortment carries no name
PositionNoName(p, q) == [assortment |-> [href |-> EntityHref("product", p), name |-> None], quantity |-> q]
Demand(id, applicable, store, positions) ==
  [id |-> id, name |-> id, moment |-> "2024", applicable |-> applicable,
   store |-> store, positions |-> positions]
DemandIds == {"d1", "d2", "d3", "d4", "d5", "d6", "d7", "d8", "d9"}
RemoteDemand(id) ==
  CASE id = "d1" -> Demand(id, TRUE, S1, Some([rows |-> <<Position("pA", 1), Position("pB", 1), Position("m2", 1)>>]))
    [] id = "d2" -> Demand(id, FALSE, S1, Some([rows |-> <<Position("pA", 1)>>]))
    [] id = "d3" -> Demand(id, TRUE, S2, Some([rows |-> <<Position("pA", 1)>>]))
    [] id = "d4" -> Demand(id, TRUE, S1, Some([rows |-> <<PositionNoName("pC", 1), Position("pA", 2)>>]))
    [] id = "d5" -> Demand(id, TRUE, S1, None)
    [] id = "d6" -> Demand(id, TRUE, [S1 EXCEPT !.id = None], Some([rows |-> <<Position("pA", 1)>>]))
    [] id = "d7" -> Demand(id, TRUE, S1, Some([rows |-> <<Position("pD", 1), Position("pA", 2)>>]))
    [] id = "d8" -> Demand(id, TRUE, S1, Some([rows |-> <<Position("pA", 2), Position("pA", 2)>>]))
    \* a position whose product link ends in "/": its final segment is empty
    [] id = "d9" -> Demand(id, TRUE, S1, Some([rows |-> <<Position("", 1)>>]))

(***************************************************************************)
(* Remote state and history.                                               *)
(***************************************************************************)
VARIABLES
  stock,               \* remote: gross stock of each product on warehouse s1
  processings,         \* remote: the processing transactions created so far
  store_cache,         \* DemandProcessor.store_cache
  organization_cache,  \* DemandProcessor.organization_cache
  lock,                \* AppState.processor mutex: None or Some(holder)
  req,                 \* the HTTP requests and direct callers
  pc,                  \* position inside process_webhook
  event,               \* process_webhook's argument
  demand,              \* the resolved demand, None before it is resolved
  idx,                 \* process_demand_positions: index of the current position
  results,             \* process_demand_positions: results
  cur,                 \* process_position: its locals
  ret,                 \* process_webhook's return value, None while it runs
  calls,               \* history: the remote calls of the current invocation
  obs,                 \* history: cur at the end of each finished position
  inv_left,            \* bound: requests that may still be accepted for processing
  response,            \* history: the last response sent and the result it was built
                       \* from, None while a request runs
  fail_left            \* bound: remote calls that may still fail

vars == <<stock, processings, store_cache, organization_cache, lock, req, pc,
          event, demand, idx, results, cur, ret, calls, obs, inv_left,
          response, fail_left>>

\* the requests that can be in flight at once: one slot for each
Requests == DOMAIN req

(***************************************************************************)
(* MoyskladClient (api/moysklad.rs).  A request either succeeds or fails   *)
(* in one of three ways; no request is re-issued.                          *)
(***************************************************************************)
FailKinds == {"transport", "status", "decode"}
CallOutcomes == {"ok"} \cup (IF fail_left > 0 THEN FailKinds ELSE {})

HttpError(outcome) ==
  CASE outcome = "transport" -> <<"Failed to send request">>
    [] outcome = "status"    -> <<"API error", "500">>
    [] outcome = "decode"    -> <<"Failed to parse response">>

\* mutant: a failed request is sent again and the second one succeeds
ClientRequest_Retry(outcome, body) == Ok(body)

\* get / post / put: the decoded body, or the error
ClientRequest(outcome, body) == IF outcome = "ok" THEN Ok(body) ELSE Err(HttpError(outcome))

\* Vec::pop on the rows of an ApiResponse: the last row
RowsPop(rows) ==
  IF rows = None THEN None
  ELSE IF Unwrap(rows) = <<>> THEN None
  ELSE Some(Unwrap(rows)[Len(Unwrap(rows))])

find_store_by_name(outcome, rows) ==
  LET r == ClientRequest(outcome, [rows |-> rows])
  IN IF r.ok THEN Ok(RowsPop(r.val.rows)) ELSE r

get_organization_remote(outcome, rows) ==
  LET r == ClientRequest(outcome, [rows |-> rows])
  IN IF r.ok THEN Ok(RowsPop(r.val.rows)) ELSE r

find_processing_plan_by_name(outcome, rows) ==
  LET r == ClientRequest(outcome, [rows |-> rows])
  IN IF r.ok THEN Ok(RowsPop(r.val.rows)) ELSE r

\* what the request for a product ends with: the backend has no product of
\* an id it does not know
ProductOutcome(outcome, product_id) ==
  IF product_id \notin ProductIds /\ outcome = "ok" THEN "status" ELSE outcome

get_product(outcome, product_id) ==
  IF product_id \in ProductIds
  THEN ClientRequest(outcome, RemoteProduct(product_id))
  ELSE Err(HttpError(IF outcome = "ok" THEN "status" ELSE outcome))

\* the stock-by-store report: a row without stores, then one row per product
\* that is in stock somewhere, each with the stock on warehouse s2 first and
\* on warehouse s1 second, a warehouse without stock of the product not being
\* listed, and last a row that repeats a product
ProductOrder == <<"pA", "pB", "pC", "pD", "m1", "m2">>
StockS2(p) == IF p = "pB" THEN 0 ELSE 5
Reserve(p) == IF p = "m2" THEN 1 ELSE 0
StoreStockInfo(sid, st, rs) == [href |-> EntityHref("store", sid), stock |-> st, reserve |-> rs]
StockRow(p, stocks) == [href |-> EntityHref("product", p), stock_by_store |-> stocks]
InStock(stocks) == SelectSeq(stocks, LAMBDA s : s.stock # 0)
RemoteStockReport(stk) ==
  LET row(p) == StockRow(p, Some(InStock(<<StoreStockInfo("s2", StockS2(p), 0),
                                           StoreStockInfo("s1", stk[p], Reserve(p))>>)))
      rows == [i \in 1..Len(ProductOrder) |-> row(ProductOrder[i])]
  IN Some(<<StockRow("m2", None)>>
          \o SelectSeq(rows, LAMBDA r : Unwrap(r.stock_by_store) # <<>>)
          \o <<StockRow("m2", Some(<<StoreStockInfo("s1", 9, 0)>>))>>)

\* mutant: the reserve is not subtracted
RECURSIVE ScanStores_Gross(_, _, _)
ScanStores_Gross(stocks, j, store_id) ==
  IF j > Len(stocks) THEN None
  ELSE IF Unwrap(RsplitNext(stocks[j].href)) = store_id
       THEN Some(stocks[j].stock)
       ELSE ScanStores_Gross(stocks, j + 1, store_id)

RECURSIVE ScanStores(_, _, _)
ScanStores(stocks, j, store_id) ==
  IF j > Len(stocks) THEN None
  ELSE IF Unwrap(RsplitNext(stocks[j].href)) = store_id
       THEN Some(stocks[j].stock - stocks[j].reserve)
       ELSE ScanStores(stocks, j + 1, store_id)

RECURSIVE ScanRows(_, _, _, _)
ScanRows(rows, i, product_id, store_id) ==
  IF i > Len(rows) THEN 0
  ELSE LET row == rows[i]
           found == IF Unwrap(RsplitNext(row.href)) = product_id /\ IsSome(row.stock_by_store)
                    THEN ScanStores(Unwrap(row.stock_by_store), 1, store_id)
                    ELSE None
       IN IF IsSome(found) THEN Unwrap(found)
          ELSE ScanRows(rows, i + 1, product_id, store_id)

\* mutant: the stock a finished position of the document has read for the
\* product is used again
get_product_stock_Cached(outcome, report, product_id, store_id) ==
  LET r == ClientRequest(outcome, [rows |-> report])
      seen == {i \in 1..Len(obs) : /\ obs[i].product_id = Some(product_id)
                                    /\ IsSome(obs[i].current_stock)}
  IN IF ~r.ok THEN r
     ELSE IF seen # {} THEN Ok(Unwrap(obs[CHOOSE i \in seen : TRUE].current_stock))
     ELSE IF IsSome(r.val.rows) THEN Ok(ScanRows(Unwrap(r.val.rows), 1, product_id, store_id))
     ELSE Ok(0)

\* mutant: a failed report counts as no stock
get_product_stock_ZeroOnError(outcome, report, product_id, store_id) ==
  LET r == ClientRequest(outcome, [rows |-> report])
  IN IF ~r.ok THEN Ok(0)
     ELSE IF IsSome(r.val.rows) THEN Ok(ScanRows(Unwrap(r.val.rows), 1, product_id, store_id))
     ELSE Ok(0)

get_product_stock(outcome, report, product_id, store_id) ==
  LET r == ClientRequest(outcome, [rows |-> report])
  IN IF ~r.ok THEN r
     ELSE IF IsSome(r.val.rows) THEN Ok(ScanRows(Unwrap(r.val.rows), 1, product_id, store_id))
     ELSE Ok(0)

\* POST /entity/processing: the backend answers with the new, unconfirmed entity
create_processing(outcome, request) ==
  ClientRequest(outcome, [id |-> <<"processing", Len(processings) + 1>>,
                          name |-> "new", applicable |-> FALSE])

\* PUT /entity/processing/{id} {applicable: true}: the backend answers with
\* the entity as it is after the update
apply_processing(outcome, processing_id, name) ==
  ClientRequest(outcome, [id |-> processing_id, name |-> name, applicable |-> TRUE])

\* GET /entity/demand/{id}
get_demand(outcome, id) ==
  IF id \in DemandIds
  THEN ClientRequest(outcome, RemoteDemand(id))
  ELSE Err(HttpError(IF outcome = "ok" THEN "status" ELSE outcome))

(***************************************************************************)
(* DemandProcessor (processing/processor.rs).                              *)
(***************************************************************************)
\* a remote call as the history records it; line is the index of the position
\* being processed, 0 outside process_position
Call(op, arg, outcome) ==
  [op |-> op, arg |-> arg,
   line |-> IF pc \in {"pw_begin", "pw_applicable", "pw_store"} THEN 0 ELSE idx,
   outcome |-> outcome]
\* a search as the history records it: the call and the rows of the answer
SearchCall(op, arg, outcome, rows) ==
  [op |-> op, arg |-> arg,
   line |-> IF pc \in {"pw_begin", "pw_applicable", "pw_store"} THEN 0 ELSE idx,
   outcome |-> outcome,
   rows |-> IF outcome = "ok" THEN rows ELSE None]
Failed(outcome) == IF outcome = "ok" THEN 0 ELSE 1

ProcessingResult(success, message, processing, product, error) ==
  [success |-> success, message |-> message,
   demand_id |-> Some(Unwrap(demand).id), demand_name |-> Some(Unwrap(demand).name),
   processing_id |-> IF IsSome(processing) THEN Some(Unwrap(processing).id) ELSE None,
   processing_name |-> IF IsSome(processing) THEN Some(Unwrap(processing).name) ELSE None,
   product |-> product, error |-> error]

ProductInfo(id, name, quantity, stock_before) ==
  [id |-> id, name |-> name, quantity |-> quantity, stock_before |-> stock_before]

UnwrapOr(o, d) == IF IsSome(o) THEN Unwrap(o) ELSE d

\* the locals of process_position before its first statement
NoCur ==
  [product_id |-> None, product_name |-> None, quantity |-> None, store |-> None,
   current_stock |-> None, tech_card_name |-> None, processing_plan |-> None,
   mi |-> 1, missing |-> <<>>, available |-> None, organization |-> None,
   processing |-> None, applied |-> None]

\* rows the backend may answer a store search and an organization list with
StoreSearchRows == {None, Some(<<>>), Some(<<S2, S1>>), Some(<<SNoId>>)}
OrganizationRows == {None, Some(<<>>), Some(<<Org2, Org1>>)}

\* mutant: a search that found no store is remembered as a store without id
get_store_CachesNotFound(outcome, rows) ==
  IF IsSome(store_cache)
  THEN [res |-> Ok(Unwrap(store_cache)), cache |-> store_cache, call |-> <<>>, failed |-> 0]
  ELSE LET r == find_store_by_name(outcome, rows)
           call == <<SearchCall("find_store_by_name", store_name, outcome, rows)>>
       IN IF ~r.ok THEN [res |-> r, cache |-> store_cache, call |-> call, failed |-> 1]
          ELSE IF r.val = None
          THEN [res |-> Err(<<"Store not found", store_name>>), cache |-> Some(SNoId),
                call |-> call, failed |-> 0]
          ELSE [res |-> Ok(Unwrap(r.val)), cache |-> r.val, call |-> call, failed |-> 0]

\* mutant: the store is searched again although it is cached
get_store_Uncached(outcome, rows) ==
  LET r == find_store_by_name(outcome, rows)
      call == <<SearchCall("find_store_by_name", store_name, outcome, rows)>>
  IN IF ~r.ok THEN [res |-> r, cache |-> store_cache, call |-> call, failed |-> 1]
     ELSE IF r.val = None
     THEN [res |-> Err(<<"Store not found", store_name>>), cache |-> store_cache,
           call |-> call, failed |-> 0]
     ELSE [res |-> Ok(Unwrap(r.val)), cache |-> r.val, call |-> call, failed |-> 0]

\* get_store: the cached store, or the store found by name, which is cached
get_store(outcome, rows) ==
  IF IsSome(store_cache)
  THEN [res |-> Ok(Unwrap(store_cache)), cache |-> store_cache, call |-> <<>>, failed |-> 0]
  ELSE LET r == find_store_by_name(outcome, rows)
           call == <<SearchCall("find_store_by_name", store_name, outcome, rows)>>
       IN IF ~r.ok THEN [res |-> r, cache |-> store_cache, call |-> call, failed |-> 1]
          ELSE IF r.val = None
          THEN [res |-> Err(<<"Store not found", store_name>>), cache |-> store_cache,
                call |-> call, failed |-> 0]
          ELSE [res |-> Ok(Unwrap(r.val)), cache |-> r.val, call |-> call, failed |-> 0]

\* get_organization: the cached organization, or the one the backend lists
get_organization(outcome, rows) ==
  IF IsSome(organization_cache)
  THEN [res |-> Ok(Unwrap(organization_cache)), cache |-> organization_cache,
        call |-> <<>>, failed |-> 0]
  ELSE LET r == get_organization_remote(outcome, rows)
           call == <<SearchCall("get_organization", "", outcome, rows)>>
       IN IF ~r.ok THEN [res |-> r, cache |-> organization_cache, call |-> call, failed |-> 1]
          ELSE IF r.val = None
          THEN [res |-> Err(<<"No organization found">>), cache |-> organization_cache,
                call |-> call, failed |-> 0]
          ELSE [res |-> Ok(Unwrap(r.val)), cache |-> r.val, call |-> call, failed |-> 0]

\* the choices the environment has when a cached getter is run
OutcomesIf(cached) == IF cached THEN {"ok"} ELSE CallOutcomes
RowsIf(cached, rows) == IF cached THEN {None} ELSE rows

frame == <<pc, event, demand, idx, results, cur, ret, calls, obs>>
remote == <<stock, processings>>
caches == <<store_cache, organization_cache>>
handlers == <<lock, req, inv_left, response>>

\* mutant: the entity type is not looked at
IsDemandEvent_Always(ev) == TRUE

\* process_webhook: "if event.entity_type != "demand"", negated
IsDemandEvent(ev) == ev.entity_type = "demand"

\* mutant: a demand for which a processing was applied is skipped
NotApplicable_OrProduced(d) ==
  \/ ~d.applicable
  \/ \E k \in 1..Len(processings) :
       /\ processings[k].applicable
       /\ processings[k].request.description =
            Some(<<"created automatically for demand", d.name, d.moment>>)

\* mutant: the applicable flag is not looked at
NotApplicable_Never(d) == FALSE

\* process_webhook: "if !demand.applicable"
NotApplicable(d) == ~d.applicable

\* mutant: every demand is taken to be of another store
OtherStore_Always(demand_store_id, cached_store_id) == TRUE

\* mutant: the demand's store is not compared
OtherStore_Never(demand_store_id, cached_store_id) == FALSE

\* process_webhook: "if demand_store_id != cached_store_id"
OtherStore(demand_store_id, cached_store_id) == demand_store_id # cached_store_id

\* process_webhook returns r
Return(r) == /\ pc' = "return"
             /\ ret' = Some(r)

\* mutant: the document the event carries is not looked at
InlineDemand_Ignored(ev) == None

\* process_webhook: "if let Some(ref demand) = event.entity"
InlineDemand(ev) == ev.entity

\* process_webhook, from its entry to the check that the demand is applicable
ProcessWebhookBegin ==
  /\ pc = "pw_begin"
  /\ UNCHANGED <<remote, caches, handlers, event, idx, results, cur, obs>>
  /\ IF ~IsDemandEvent(event)
     THEN /\ Return(Ok(<<>>))
          /\ UNCHANGED <<demand, calls, fail_left>>
     ELSE IF IsSome(InlineDemand(event))
     THEN /\ demand' = InlineDemand(event)
          /\ pc' = "pw_applicable"
          /\ UNCHANGED <<ret, calls, fail_left>>
     ELSE IF IsSome(event.content)
     THEN IF IsSome(Unwrap(event.content).id)
          THEN \E outcome \in CallOutcomes :
                 LET id == Unwrap(Unwrap(event.content).id)
                     r == get_demand(outcome, id)
                 IN /\ calls' = Append(calls, Call("get_demand", id, outcome))
                    /\ fail_left' = fail_left - Failed(outcome)
                    /\ IF r.ok
                       THEN /\ demand' = Some(r.val)
                            /\ pc' = "pw_applicable"
                            /\ UNCHANGED ret
                       ELSE /\ Return(r)
                            /\ UNCHANGED demand
          ELSE /\ Return(Err(<<"No demand ID in webhook content">>))
               /\ UNCHANGED <<demand, calls, fail_left>>
     ELSE /\ Return(Err(<<"No demand data in webhook event">>))
          /\ UNCHANGED <<demand, calls, fail_left>>

\* process_webhook: a demand that is not applicable is skipped
ProcessWebhookApplicable ==
  /\ pc = "pw_applicable"
  /\ UNCHANGED <<remote, caches, handlers, event, demand, idx, results, cur, obs, calls, fail_left>>
  /\ IF NotApplicable(Unwrap(demand))
     THEN Return(Ok(<<ProcessingResult(TRUE, <<"demand not applicable, skipping">>,
                                       None, None, None)>>))
     ELSE /\ pc' = "pw_store"
          /\ UNCHANGED ret

\* process_webhook: the demand's store against the monitored store
ProcessWebhookStore ==
  /\ pc = "pw_store"
  /\ UNCHANGED <<remote, organization_cache, handlers, event, demand, idx, results, cur, obs>>
  /\ \E outcome \in OutcomesIf(IsSome(store_cache)),
        rows \in RowsIf(IsSome(store_cache), StoreSearchRows) :
       LET g == get_store(outcome, rows)
           d == Unwrap(demand)
       IN /\ store_cache' = g.cache
          /\ calls' = calls \o g.call
          /\ fail_left' = fail_left - g.failed
          /\ IF ~g.res.ok THEN Return(g.res)
             ELSE IF d.store.id = None THEN Return(Err(<<"Store ID missing">>))
             ELSE IF g.res.val.id = None THEN Return(Err(<<"Cached store ID missing">>))
             ELSE IF OtherStore(Unwrap(d.store.id), Unwrap(g.res.val.id))
             THEN Return(Ok(<<ProcessingResult(TRUE, <<"demand of another store", d.store.name>>,
                                               None, None, None)>>))
             ELSE /\ pc' = "positions"
                  /\ UNCHANGED ret

\* process_demand_positions: the loop over the positions
ProcessDemandPositions ==
  /\ pc = "positions"
  /\ UNCHANGED <<remote, caches, handlers, event, demand, idx, results, obs, calls, fail_left>>
  /\ LET positions == Unwrap(demand).positions
     IN IF positions = None
        THEN /\ Return(Ok(<<>>))
             /\ UNCHANGED cur
        ELSE IF idx > Len(Unwrap(positions).rows)
        THEN /\ Return(Ok(results))
             /\ UNCHANGED cur
        ELSE /\ pc' = "pos_begin"
             /\ cur' = NoCur
             /\ UNCHANGED ret

CurPosition == Unwrap(Unwrap(demand).positions).rows[idx]

\* mutant: the snapshot carries the stock process_position observed
extract_product_info_from_position_Observed(position) ==
  ProductInfo(UnwrapOr(RsplitNext(position.assortment.href), "unknown"),
              UnwrapOr(position.assortment.name, "unknown"),
              position.quantity, UnwrapOr(cur.current_stock, 0))

extract_product_info_from_position(position) ==
  ProductInfo(UnwrapOr(RsplitNext(position.assortment.href), "unknown"),
              UnwrapOr(position.assortment.name, "unknown"),
              position.quantity, 0)

\* mutant: a result is put in front of the earlier ones
PushResult_Prepend(result, c) ==
  /\ results' = <<result>> \o results
  /\ obs' = Append(obs, c)
  /\ cur' = c
  /\ idx' = idx + 1
  /\ pc' = "positions"
  /\ UNCHANGED ret

\* process_demand_positions: a result of process_position is pushed
PushResult(result, c) ==
  /\ results' = Append(results, result)
  /\ obs' = Append(obs, c)
  /\ cur' = c
  /\ idx' = idx + 1
  /\ pc' = "positions"
  /\ UNCHANGED ret

\* process_position goes on to its next remote call
Continue(c, next) ==
  /\ cur' = c
  /\ pc' = next
  /\ UNCHANGED <<idx, results, obs, ret>>

\* mutant: the loop over the positions ends at the first error
PushError_Stop(e, c) ==
  /\ results' = Append(results,
                       ProcessingResult(FALSE, <<"position processing error">> \o e, None,
                                        Some(extract_product_info_from_position(CurPosition)),
                                        Some(e)))
  /\ obs' = Append(obs, c)
  /\ cur' = c
  /\ idx' = idx + 1
  /\ pc' = "return"
  /\ ret' = Some(Ok(results'))

\* mutant: an error of process_position is propagated with "?"
PushError_Abort(e, c) ==
  /\ pc' = "return"
  /\ ret' = Some(Err(e))
  /\ cur' = c
  /\ UNCHANGED <<idx, results, obs>>

\* mutant: the result of a failed position carries no error
PushError_Silent(e, c) ==
  PushResult(ProcessingResult(FALSE, <<"position processing error">> \o e, None,
                              Some(extract_product_info_from_position(CurPosition)),
                              None),
             c)

\* process_demand_positions: an error of process_position becomes a result
PushError(e, c) ==
  PushResult(ProcessingResult(FALSE, <<"position processing error">> \o e, None,
                              Some(extract_product_info_from_position(CurPosition)),
                              Some(e)),
             c)

CurProductInfo(c) ==
  Some(ProductInfo(Unwrap(c.product_id), Unwrap(c.product_name), Unwrap(c.quantity),
                   Unwrap(c.current_stock)))

\* process_position: product id, name, quantity and the monitored store
PositionBegin ==
  /\ pc = "pos_begin"
  /\ UNCHANGED <<remote, organization_cache, handlers, event, demand>>
  /\ LET product_id == RsplitNext(CurPosition.assortment.href)
     IN IF product_id = None
        THEN /\ PushError(<<"Cannot extract product ID from assortment href">>, cur)
             /\ UNCHANGED <<store_cache, calls, fail_left>>
        ELSE \E outcome \in OutcomesIf(IsSome(store_cache)),
                rows \in RowsIf(IsSome(store_cache), StoreSearchRows) :
               LET g == get_store(outcome, rows)
                   c == [cur EXCEPT !.product_id = product_id,
                                    !.product_name = Some(UnwrapOr(CurPosition.assortment.name, "unknown")),
                                    !.quantity = Some(CurPosition.quantity)]
               IN /\ store_cache' = g.cache
                  /\ calls' = calls \o g.call
                  /\ fail_left' = fail_left - g.failed
                  /\ IF ~g.res.ok THEN PushError(g.res.err, c)
                     ELSE IF g.res.val.id = None THEN PushError(<<"Store ID missing">>, c)
                     ELSE Continue([c EXCEPT !.store = Some(g.res.val)], "pos_stock")

\* mutant: stock equal to the threshold counts as insufficient
StockSufficient_Strict(current_stock) == current_stock > min_stock_threshold

\* process_position: "if current_stock >= self.settings.min_stock_threshold"
StockSufficient(current_stock) == current_stock >= min_stock_threshold

\* process_position: the stock of the product against the threshold
PositionStock ==
  /\ pc = "pos_stock"
  /\ UNCHANGED <<remote, caches, handlers, event, demand>>
  /\ \E outcome \in CallOutcomes :
       LET product_id == Unwrap(cur.product_id)
           store_id == Unwrap(Unwrap(cur.store).id)
           r == get_product_stock(outcome, RemoteStockReport(stock), product_id, store_id)
       IN /\ calls' = Append(calls, Call("get_product_stock", product_id, outcome))
          /\ fail_left' = fail_left - Failed(outcome)
          /\ IF ~r.ok THEN PushError(r.err, cur)
             ELSE LET c == [cur EXCEPT !.current_stock = Some(r.val)]
                  IN IF StockSufficient(r.val)
                     THEN PushResult(ProcessingResult(TRUE,
                                       <<"stock is sufficient", r.val, min_stock_threshold>>,
                                       None, CurProductInfo(c), None), c)
                     ELSE Continue(c, "pos_product")

\* Attribute::as_string
as_string(attr) ==
  IF attr.value = None THEN None
  ELSE LET v == Unwrap(attr.value)
       IN CASE v.t = "String"    -> Some(v.v)
            [] v.t = "Number"    -> Some(ToString(v.v))
            [] v.t = "Boolean"   -> Some(IF v.v THEN "true" ELSE "false")
            [] v.t = "EntityRef" -> v.v.name

\* mutant: the name of the attribute is not compared
RECURSIVE FindAttr_AnyName(_, _)
FindAttr_AnyName(attributes, i) ==
  IF i > Len(attributes) THEN ""
  ELSE IF IsSome(as_string(attributes[i]))
       THEN Unwrap(as_string(attributes[i]))
       ELSE FindAttr_AnyName(attributes, i + 1)

RECURSIVE FindAttr(_, _)
FindAttr(attributes, i) ==
  IF i > Len(attributes) THEN ""
  ELSE IF attributes[i].name = tech_card_field_name /\ IsSome(as_string(attributes[i]))
       THEN Unwrap(as_string(attributes[i]))
       ELSE FindAttr(attributes, i + 1)

find_tech_card_name(product) ==
  IF product.attributes = None THEN Ok("")
  ELSE Ok(FindAttr(Unwrap(product.attributes), 1))

\* mutant: an empty tech card name is not detected
TechCardMissing_Never(tech_card_name) == FALSE

\* process_position: "if tech_card_name.is_empty()"
TechCardMissing(tech_card_name) == tech_card_name = ""

\* process_position: the product's attributes and the name of its tech card
PositionProduct ==
  /\ pc = "pos_product"
  /\ UNCHANGED <<remote, caches, handlers, event, demand>>
  /\ \E outcome \in CallOutcomes :
       LET product_id == Unwrap(cur.product_id)
           r == get_product(outcome, product_id)
       IN /\ calls' = Append(calls, Call("get_product", product_id,
                                        ProductOutcome(outcome, product_id)))
          /\ fail_left' = fail_left - Failed(outcome)
          /\ IF ~r.ok THEN PushError(r.err, cur)
             ELSE LET t == find_tech_card_name(r.val)
                  IN IF ~t.ok THEN PushError(t.err, cur)
                     ELSE LET c == [cur EXCEPT !.tech_card_name = Some(t.val)]
                          IN IF TechCardMissing(t.val)
                             THEN PushResult(ProcessingResult(FALSE,
                                               <<"tech card not found in the product card">>,
                                               None, CurProductInfo(c),
                                               Some(<<"tech card not found">>)), c)
                             ELSE Continue(c, "pos_plan")

\* mutant: the list of missing materials outlives the call
MissingNew_Stale == IF obs = <<>> THEN <<>> ELSE obs[Len(obs)].missing

\* check_materials_availability: "let mut missing = Vec::new()"
MissingNew == <<>>

\* process_position: the processing plan of that name
PositionPlan ==
  /\ pc = "pos_plan"
  /\ UNCHANGED <<remote, caches, handlers, event, demand>>
  /\ \E outcome \in CallOutcomes, rows \in RemotePlanRows(Unwrap(cur.tech_card_name)) :
       LET name == Unwrap(cur.tech_card_name)
           r == find_processing_plan_by_name(outcome, rows)
       IN /\ calls' = Append(calls, SearchCall("find_processing_plan_by_name", name, outcome, rows))
          /\ fail_left' = fail_left - Failed(outcome)
          /\ IF ~r.ok THEN PushError(r.err, cur)
             ELSE IF r.val = None THEN PushError(<<"Processing plan not found", name>>, cur)
             ELSE Continue([cur EXCEPT !.processing_plan = r.val, !.mi = 1,
                                       !.missing = MissingNew], "pos_check")

\* check_materials_availability: the rows of the plan's materials, if any
MaterialRows(processing_plan) ==
  IF processing_plan.materials = None THEN None
  ELSE Unwrap(processing_plan.materials).rows

\* mutant: the quantity per unit is not scaled by the target quantity
material_qty_Unscaled(material, quantity) == material.quantity

\* check_materials_availability: "material.quantity * quantity"
material_qty(material, quantity) == material.quantity * quantity

\* check_materials_availability: "if stock < material_qty { missing.push(..) }"
PushMissing(missing, material_name, qty, stk) ==
  IF stk < qty THEN Append(missing, <<material_name, qty - stk>>) ELSE missing

MaterialsLeft ==
  /\ IsSome(MaterialRows(Unwrap(cur.processing_plan)))
  /\ cur.mi <= Len(Unwrap(MaterialRows(Unwrap(cur.processing_plan))))

\* check_materials_availability: one turn of the loop over the materials
CheckMaterial ==
  /\ pc = "pos_check"
  /\ MaterialsLeft
  /\ UNCHANGED <<remote, caches, handlers, event, demand>>
  /\ \E outcome \in CallOutcomes :
       LET material == Unwrap(MaterialRows(Unwrap(cur.processing_plan)))[cur.mi]
           qty == material_qty(material, Unwrap(cur.quantity))
           material_id == UnwrapOr(RsplitNext(material.product.href), "")
           store_id == Unwrap(Unwrap(cur.store).id)
           r == get_product_stock(outcome, RemoteStockReport(stock), material_id, store_id)
           material_name == UnwrapOr(material.product.name, "unknown")
       IN /\ calls' = Append(calls, Call("get_product_stock", material_id, outcome))
          /\ fail_left' = fail_left - Failed(outcome)
          /\ IF ~r.ok THEN PushError(r.err, cur)
             ELSE Continue([cur EXCEPT !.mi = cur.mi + 1,
                                       !.missing = PushMissing(cur.missing, material_name, qty, r.val)],
                           "pos_check")

\* mutant: the result is built as available whatever is missing
MaterialsCheckResult_Available(missing) == [available |-> TRUE, missing |-> missing]

\* MaterialsCheckResult::available() / MaterialsCheckResult::missing(missing)
MaterialsCheckResult(missing) ==
  IF missing = <<>> THEN [available |-> TRUE, missing |-> <<>>]
  ELSE [available |-> FALSE, missing |-> missing]

\* mutant: the test of the check's result is inverted
NotAvailable_Inverted(materials_check) == materials_check.available

\* mutant: a shortfall never stops the position
NotAvailable_Never(materials_check) == FALSE

\* process_position: "if !materials_check.available"
NotAvailable(materials_check) == ~materials_check.available

\* mutant: only the first missing material is listed
MissingText_First(missing) == [i \in 1..1 |-> <<missing[i][1], "needed", missing[i][2]>>]

\* process_position: the text that lists the missing materials
MissingText(missing) == [i \in 1..Len(missing) |-> <<missing[i][1], "needed", missing[i][2]>>]

\* check_materials_availability returns; process_position acts on the result
CheckMaterialsDone ==
  /\ pc = "pos_check"
  /\ ~MaterialsLeft
  /\ UNCHANGED <<remote, caches, handlers, event, demand, calls, fail_left>>
  /\ LET materials_check == MaterialsCheckResult(cur.missing)
         c == [cur EXCEPT !.available = Some(materials_check.available),
                          !.missing = materials_check.missing]
     IN IF NotAvailable(materials_check)
        THEN LET text == <<"not enough materials", MissingText(materials_check.missing)>>
             IN PushResult(ProcessingResult(FALSE, text, None, CurProductInfo(c), Some(text)), c)
        ELSE Continue(c, "pos_org")

\* process_position: the organization
PositionOrganization ==
  /\ pc = "pos_org"
  /\ UNCHANGED <<remote, store_cache, handlers, event, demand>>
  /\ \E outcome \in OutcomesIf(IsSome(organization_cache)),
        rows \in RowsIf(IsSome(organization_cache), OrganizationRows) :
       LET g == get_organization(outcome, rows)
       IN /\ organization_cache' = g.cache
          /\ calls' = calls \o g.call
          /\ fail_left' = fail_left - g.failed
          /\ IF ~g.res.ok THEN PushError(g.res.err, cur)
             ELSE Continue([cur EXCEPT !.organization = Some(g.res.val)], "pos_create")

\* create_processing_operation: the request
CreateProcessingRequest(processing_plan, store, organization, quantity, d) ==
  [processing_plan |-> processing_plan.href, store |-> store.href,
   products_store |-> store.href, organization |-> organization.href,
   quantity |-> quantity, name |-> None,
   description |-> Some(<<"created automatically for demand", d.name, d.moment>>),
   processing_sum |-> 0]

\* the backend stores a created processing
RemoteCreated(request, created) ==
  Append(processings, [id |-> created.id, name |-> created.name, applicable |-> FALSE,
                       request |-> request])

\* process_position: the processing is created
PositionCreate ==
  /\ pc = "pos_create"
  /\ UNCHANGED <<stock, caches, handlers, event, demand>>
  /\ \E outcome \in CallOutcomes :
       LET request == CreateProcessingRequest(Unwrap(cur.processing_plan), Unwrap(cur.store),
                                              Unwrap(cur.organization), Unwrap(cur.quantity),
                                              Unwrap(demand))
           r == create_processing(outcome, request)
       IN /\ calls' = Append(calls, Call("create_processing", request, outcome))
          /\ fail_left' = fail_left - Failed(outcome)
          /\ IF ~r.ok
             THEN /\ PushError(r.err, cur)
                  /\ UNCHANGED processings
             ELSE /\ processings' = RemoteCreated(request, r.val)
                  /\ Continue([cur EXCEPT !.processing = Some(r.val)], "pos_apply")

\* names the backend may report for a processing when it is applied
ProcessingNames == {"00001"}

\* the backend marks the processing applicable
RemoteApplied(processing_id, name) ==
  [i \in 1..Len(processings) |->
     IF processings[i].id = processing_id
     THEN [processings[i] EXCEPT !.applicable = TRUE, !.name = name]
     ELSE processings[i]]

\* the backend books an applied processing: the plan's products are added to
\* the stock and its materials are taken from it, times the quantity
RowsQuantity(rows, p) ==
  LET I == {i \in 1..Len(rows) : Unwrap(RsplitNext(rows[i].product.href)) = p}
      RECURSIVE Sum(_)
      Sum(S) == IF S = {} THEN 0
                ELSE LET i == CHOOSE i \in S : TRUE IN rows[i].quantity + Sum(S \ {i})
  IN Sum(I)
\* the plan a processing was created for
RemotePlan(href) ==
  CASE Unwrap(RsplitNext(href)) = "plan1"  -> Plan1
    [] Unwrap(RsplitNext(href)) = "plan1b" -> Plan1b
    [] Unwrap(RsplitNext(href)) = "plan2"  -> Plan2(None)
RowsOf(expanded) ==
  IF expanded = None THEN <<>>
  ELSE IF Unwrap(expanded).rows = None THEN <<>>
  ELSE Unwrap(Unwrap(expanded).rows)
RemoteStockApplied(processing_id) ==
  LET i == CHOOSE i \in 1..Len(processings) : processings[i].id = processing_id
      quantity == processings[i].request.quantity
      plan == RemotePlan(processings[i].request.processing_plan)
  IN [p \in ProductIds |->
        stock[p] + quantity * RowsQuantity(RowsOf(plan.products), p)
                 - quantity * RowsQuantity(RowsOf(plan.materials), p)]

\* mutant: the result reports the processing as created, not as applied
ResultProcessing_Created(processing, applied_processing) == processing

\* process_position: the processing the result reports
ResultProcessing(processing, applied_processing) == applied_processing

\* mutant: after a failed apply the processing is created anew
ApplyFailed_CreateAgain(e, c) == Continue([c EXCEPT !.processing = None], "pos_create")

\* mutant: a failed apply is tried again
ApplyFailed_Retry(e, c) == Continue(c, "pos_apply")

\* process_position: "self.client.apply_processing(&processing.id).await?",
\* the error leaves process_position
ApplyFailed(e, c) == PushError(e, c)

\* process_position: the processing is applied and the result is returned
PositionApply ==
  /\ pc = "pos_apply"
  /\ UNCHANGED <<caches, handlers, event, demand>>
  /\ \E outcome \in CallOutcomes, name \in ProcessingNames :
       LET processing == Unwrap(cur.processing)
           r == apply_processing(outcome, processing.id, name)
       IN /\ calls' = Append(calls, Call("apply_processing", processing.id, outcome))
          /\ fail_left' = fail_left - Failed(outcome)
          /\ IF ~r.ok
             THEN /\ ApplyFailed(r.err, cur)
                  /\ UNCHANGED remote
             ELSE LET c == [cur EXCEPT !.applied = Some(r.val)]
                  IN /\ processings' = RemoteApplied(processing.id, name)
                     /\ stock' = RemoteStockApplied(processing.id)
                     /\ PushResult(ProcessingResult(TRUE,
                                     <<"processing created", Unwrap(c.quantity), Unwrap(c.product_name)>>,
                                     Some(ResultProcessing(processing, r.val)),
                                     CurProductInfo(c), None), c)

(***************************************************************************)
(* HTTP handlers (handlers/webhook.rs) and other callers of                *)
(* process_webhook.                                                        *)
(***************************************************************************)
WebhookEvent(entity_type, entity, content) ==
  [entity_type |-> entity_type, entity |-> entity, content |-> content]
WebhookContent(id) == [id |-> id]
NoEvent == WebhookEvent("", None, None)

\* mutant: the entity type is compared as it was sent
to_lowercase_Identity(t) == t

\* str::to_lowercase on the entity types that are sent
to_lowercase(t) ==
  CASE t = "Demand" -> "demand"
    [] t = "DEMAND" -> "demand"
    [] t = "Supply" -> "supply"
    [] OTHER        -> t

WebhookTypes == {"Demand", "Supply"}
WebhookIds == DemandIds \cup {"dX"}
ManualIds == {"d4"}
\* events a caller other than the two handlers may pass to process_webhook
DirectEvents ==
  { WebhookEvent("supply", None, Some(WebhookContent(Some("d1")))),
    WebhookEvent("demand", Some(RemoteDemand("d2")), Some(WebhookContent(Some("d1")))),
    WebhookEvent("demand", None, None),
    WebhookEvent("demand", None, Some(WebhookContent(None))) }

IdleRequest == [phase |-> "idle", kind |-> "", id |-> "", event |-> NoEvent]

HttpResponse(http, status, body) == [http |-> http, status |-> status, body |-> body]

\* a request that arrives is handled in the lowest free slot
FreeSlot(r) ==
  /\ req[r].phase = "idle"
  /\ \A q \in Requests : q < r => req[q].phase # "idle"

\* webhook: the query is read; an event of another type is answered at once
webhook(r, id, entity_type) ==
  /\ FreeSlot(r)
  /\ UNCHANGED <<remote, caches, lock, frame, fail_left>>
  /\ LET entity_type_lower == to_lowercase(entity_type)
     IN IF entity_type_lower # "demand"
        THEN /\ response' = Some([to |-> r, kind |-> "webhook", result |-> None,
                                  resp |-> HttpResponse(200, "ignored",
                                                        <<"Not a demand event", entity_type>>)])
             /\ UNCHANGED <<req, inv_left>>
        ELSE /\ inv_left > 0
             /\ req' = [req EXCEPT ![r] =
                  [phase |-> "waiting", kind |-> "webhook", id |-> id,
                   event |-> WebhookEvent(entity_type_lower, None, Some(WebhookContent(Some(id))))]]
             /\ inv_left' = inv_left - 1
             /\ UNCHANGED response

\* process_demand: the demand id is read from the path
process_demand(r, demand_id) ==
  /\ FreeSlot(r)
  /\ inv_left > 0
  /\ UNCHANGED <<remote, caches, lock, frame, fail_left, response>>
  /\ req' = [req EXCEPT ![r] =
       [phase |-> "waiting", kind |-> "manual", id |-> demand_id,
        event |-> WebhookEvent("demand", None, Some(WebhookContent(Some(demand_id))))]]
  /\ inv_left' = inv_left - 1

\* another caller that owns the processor is about to call process_webhook
direct_call(r, ev) ==
  /\ FreeSlot(r)
  /\ inv_left > 0
  /\ UNCHANGED <<remote, caches, lock, frame, fail_left, response>>
  /\ req' = [req EXCEPT ![r] = [phase |-> "waiting", kind |-> "direct", id |-> "", event |-> ev]]
  /\ inv_left' = inv_left - 1

\* mutant: the processor is handed out without waiting for the mutex
LockFree_Always == TRUE

\* Mutex::lock: the future completes when no guard is alive
LockFree == lock = None

\* state.processor.lock().await, then process_webhook is entered
lock_acquire(r) ==
  /\ req[r].phase = "waiting"
  /\ LockFree
  /\ lock' = Some(r)
  /\ req' = [req EXCEPT ![r].phase = "running"]
  /\ pc' = "pw_begin"
  /\ event' = req[r].event
  /\ demand' = None
  /\ idx' = 1
  /\ results' = <<>>
  /\ cur' = NoCur
  /\ ret' = None
  /\ calls' = <<>>
  /\ obs' = <<>>
  /\ response' = None
  /\ UNCHANGED <<remote, caches, inv_left, fail_left>>

\* mutant: the handler answers with an error when a position has failed
Response_ErrorOnFailedLine(kind, id, r) ==
  IF kind = "direct" THEN r
  ELSE IF r.ok /\ \A k \in 1..Len(r.val) : r.val[k].success
  THEN HttpResponse(200, "processed", [demand_id |-> id, results |-> r.val])
  ELSE HttpResponse(500, "error",
                    [demand_id |-> id,
                     message |-> IF r.ok THEN <<"position failed">> ELSE r.err])

\* mutant: the handler answers 200 'processed' whatever process_webhook returned
Response_AlwaysProcessed(kind, id, r) ==
  IF kind = "direct" THEN r
  ELSE HttpResponse(200, "processed",
                    [demand_id |-> id, results |-> IF r.ok THEN r.val ELSE <<>>])

\* the handler's match on the result of process_webhook
Response(kind, id, r) ==
  IF kind = "direct" THEN r
  ELSE IF r.ok THEN HttpResponse(200, "processed", [demand_id |-> id, results |-> r.val])
  ELSE HttpResponse(500, "error", [demand_id |-> id, message |-> r.err])

\* mutant: the guard is kept alive when process_webhook returned an error
drop_guard_OnOkOnly(r, result) == IF result.ok THEN None ELSE Some(r)

\* the handler returns: the MutexGuard goes out of scope, on either arm
drop_guard(r, result) == None

\* process_webhook has returned: the response is built, the lock guard dropped
respond(r) ==
  /\ lock = Some(r)
  /\ pc = "return"
  /\ pc' = "idle"
  /\ lock' = drop_guard(r, Unwrap(ret))
  /\ req' = [req EXCEPT ![r] = IdleRequest]
  /\ response' = Some([to |-> r, kind |-> req[r].kind, result |-> ret,
                       resp |-> Response(req[r].kind, req[r].id, Unwrap(ret))])
  /\ UNCHANGED <<remote, caches, inv_left, fail_left, event, demand, idx, results, cur,
                 ret, calls, obs>>

(***************************************************************************)
(* The specification.                                                      *)
(***************************************************************************)
\* gross stock on warehouse s1 when the service starts
InitStocks ==
  { [p \in ProductIds |->
       CASE p = "pA" -> a [] p = "m1" -> mn[1] [] p = "m2" -> mn[2] [] p = "pB" -> 0 [] OTHER -> 1]
    : a \in {0, 2}, mn \in {<<2, 5>>, <<0, 5>>, <<0, 2>>} }

Init ==
  /\ stock \in InitStocks
  /\ processings = <<>>
  /\ store_cache = None
  /\ organization_cache = None
  /\ lock = None
  /\ req = [r \in {1} |-> IdleRequest]
  /\ pc = "idle"
  /\ event = NoEvent
  /\ demand = None
  /\ idx = 1
  /\ results = <<>>
  /\ cur = NoCur
  /\ ret = None
  /\ calls = <<>>
  /\ obs = <<>>
  /\ inv_left = MaxInvocations
  /\ response = None
  /\ fail_left = MaxFailures

Webhook == \E r \in Requests, id \in WebhookIds, t \in WebhookTypes : webhook(r, id, t)
ManualProcess == \E r \in Requests, id \in ManualIds : process_demand(r, id)
DirectCall == \E r \in Requests, ev \in DirectEvents : direct_call(r, ev)
LockAcquire == \E r \in Requests : lock_acquire(r)
Respond == \E r \in Requests : respond(r)

Next ==
  \/ Webhook
  \/ ManualProcess
  \/ DirectCall
  \/ LockAcquire
  \/ ProcessWebhookBegin
  \/ ProcessWebhookApplicable
  \/ ProcessWebhookStore
  \/ ProcessDemandPositions
  \/ PositionBegin
  \/ PositionStock
  \/ PositionProduct
  \/ PositionPlan
  \/ CheckMaterial
  \/ CheckMaterialsDone
  \/ PositionOrganization
  \/ PositionCreate
  \/ PositionApply
  \/ Respond

Spec == Init /\ [][Next]_vars

\* several documents, of requests one after another or waiting for each other
\* (two can be in flight at once; Init has one at a time), against one
\* stock: enough of each material for one processing of pA
InitDocuments ==
  /\ stock = [p \in ProductIds |->
                CASE p = "pA" -> 0 [] p = "m1" -> 2 [] p = "m2" -> 5 [] p = "pC" -> 1 [] OTHER -> 0]
  /\ processings = <<>>
  /\ store_cache = None
  /\ organization_cache = None
  /\ lock = None
  /\ req = [r \in {1, 2} |-> IdleRequest]
  /\ pc = "idle"
  /\ event = NoEvent
  /\ demand = None
  /\ idx = 1
  /\ results = <<>>
  /\ cur = NoCur
  /\ ret = None
  /\ calls = <<>>
  /\ obs = <<>>
  /\ inv_left = MaxDocuments
  /\ response = None
  /\ fail_left = MaxFailures

\* the documents of these behaviours: one of another store, one with two
\* positions that are produced, and the one processed by hand
DocumentIds == {"d3", "d7"}
WebhookDocuments ==
  \E r \in Requests, id \in DocumentIds, t \in WebhookTypes : webhook(r, id, t)

NextDocuments ==
  \/ WebhookDocuments
  \/ ManualProcess
  \/ LockAcquire
  \/ ProcessWebhookBegin
  \/ ProcessWebhookApplicable
  \/ ProcessWebhookStore
  \/ ProcessDemandPositions
  \/ PositionBegin
  \/ PositionStock
  \/ PositionProduct
  \/ PositionPlan
  \/ CheckMaterial
  \/ CheckMaterialsDone
  \/ PositionOrganization
  \/ PositionCreate
  \/ PositionApply
  \/ Respond

SpecDocuments == InitDocuments /\ [][NextDocuments]_vars

\* the steps of process_webhook: each ends when its remote call has returned
process_webhook ==
  \/ ProcessWebhookBegin
  \/ ProcessWebhookApplicable
  \/ ProcessWebhookStore
  \/ ProcessDemandPositions
  \/ PositionBegin
  \/ PositionStock
  \/ PositionProduct
  \/ PositionPlan
  \/ CheckMaterial
  \/ CheckMaterialsDone
  \/ PositionOrganization
  \/ PositionCreate
  \/ PositionApply

\* the same behaviours, scheduled: every remote call returns, so the step
\* in progress is taken; a handler whose process_webhook has returned goes
\* on to its response; the mutex hands the lock to every waiter in turn
SpecScheduled ==
  /\ InitDocuments
  /\ [][NextDocuments]_vars
  /\ WF_vars(process_webhook)
  /\ WF_vars(Respond)
  /\ \A r \in {1, 2} : SF_vars(lock_acquire(r))

(***************************************************************************)
(* Vocabulary of the properties.                                           *)
(***************************************************************************)
Range(seq) == {seq[k] : k \in 1..Len(seq)}
LineCalls(i) == SelectSeq(calls, LAMBDA c : c.line = i)
LineOps(i) == {c.op : c \in Range(LineCalls(i))}
Ops == {c.op : c \in Range(calls)}
Finished == 1..Len(obs)
CreateIssued(i) == "create_processing" \in LineOps(i)
\* the position's product id: the final segment of its product link
LineProductId(i) ==
  LET href == Unwrap(Unwrap(demand).positions).rows[i].assortment.href IN href[Len(href)]
\* available stock on the monitored warehouse: gross stock minus reserve
Available(p) == stock[p] - Reserve(p)
StockBelow(c) == IsSome(c.current_stock) /\ Unwrap(c.current_stock) < min_stock_threshold
StockAtLeast(c) == IsSome(c.current_stock) /\ Unwrap(c.current_stock) >= min_stock_threshold
BomNamed(c) == IsSome(c.tech_card_name) /\ Unwrap(c.tech_card_name) # ""
BomResolved(c) == IsSome(c.processing_plan)
NoShortfall(c) == c.available = Some(TRUE)
\* the shortfalls of the first k materials: required = quantity per unit times
\* target quantity, missing = required - available where that is positive
RECURSIVE Shortfalls(_, _, _)
Shortfalls(rows, k, target) ==
  IF k = 0 THEN <<>>
  ELSE LET m == rows[k]
           required == m.quantity * target
           available == Available(Unwrap(m.product.id))
       IN Shortfalls(rows, k - 1, target)
          \o (IF required > available
              THEN << <<Unwrap(m.product.name), required - available>> >>
              ELSE <<>>)
PlanRows(c) ==
  LET plan == Unwrap(c.processing_plan)
  IN IF plan.materials = None \/ Unwrap(plan.materials).rows = None THEN <<>>
     ELSE Unwrap(Unwrap(plan.materials).rows)
\* the demand is applicable and on the monitored store: its positions are processed
OnMonitoredStore ==
  /\ IsSome(demand) /\ Unwrap(demand).applicable
  /\ IsSome(store_cache) /\ IsSome(Unwrap(store_cache).id)
  /\ IsSome(Unwrap(demand).store.id)
  /\ Unwrap(demand).store.id = Unwrap(store_cache).id
NumPositions ==
  IF Unwrap(demand).positions = None THEN 0 ELSE Len(Unwrap(Unwrap(demand).positions).rows)

(***************************************************************************)
(* C1.                                                                     *)
(***************************************************************************)
\* C1, as stated: for every finished position, a create call was issued if
\* and only if the observed stock is below the threshold, the product has a
\* non-empty tech card name, the name resolved to a plan and the
\* availability check reported no shortfall.
C1_CreateIffConditions ==
  \A i \in Finished :
    CreateIssued(i) <=>
      (StockBelow(obs[i]) /\ BomNamed(obs[i]) /\ BomResolved(obs[i]) /\ NoShortfall(obs[i]))

\* C1, amended: for every finished position, a create call was issued if and
\* only if the observed stock is below the threshold, the product has a
\* non-empty tech card name, the name resolved to a plan, the availability
\* check reported no shortfall and the organization was resolved; and a
\* position still being processed has issued a create call only under
\* these conditions.
C1_CreateIffConditionsAndOrganization ==
  /\ \A i \in Finished :
       CreateIssued(i) <=>
         (StockBelow(obs[i]) /\ BomNamed(obs[i]) /\ BomResolved(obs[i])
          /\ NoShortfall(obs[i]) /\ IsSome(obs[i].organization))
  /\ (lock # None /\ CreateIssued(idx)) =>
       (StockBelow(cur) /\ BomNamed(cur) /\ BomResolved(cur) /\ NoShortfall(cur)
        /\ IsSome(cur.organization))

\* a finished position for which the create call was issued, and another
\* for which it was not
C1_Witness ==
  /\ \E i \in Finished : CreateIssued(i)
  /\ \E i \in Finished : ~CreateIssued(i) /\ StockBelow(obs[i])

(***************************************************************************)
(* C2.                                                                     *)
(***************************************************************************)
\* C2: while and after a demand that is not applicable is handled, the only
\* remote call of the invocation is the fetch of the demand, and what
\* process_webhook returns is Ok with exactly one result, success = true,
\* without product and without processing id.
C2_NotApplicableIsSkipped ==
  (IsSome(demand) /\ ~Unwrap(demand).applicable) =>
    /\ Ops \subseteq {"get_demand"}
    /\ obs = <<>>
    /\ IsSome(ret) =>
         /\ Unwrap(ret).ok
         /\ Len(Unwrap(ret).val) = 1
         /\ Unwrap(ret).val[1].success = TRUE
         /\ Unwrap(ret).val[1].product = None
         /\ Unwrap(ret).val[1].processing_id = None
         /\ Unwrap(ret).val[1].processing_name = None
         /\ Unwrap(ret).val[1].error = None

\* process_webhook has returned for a fetched demand that is not applicable
C2_Witness ==
  /\ IsSome(ret) /\ IsSome(demand) /\ ~Unwrap(demand).applicable
  /\ Ops = {"get_demand"}

(***************************************************************************)
(* C3.                                                                     *)
(***************************************************************************)
\* C3: a finished position whose observed stock is at least the threshold has
\* a result with success = true, stock_before equal to the observed stock and
\* no processing id, and the stock read is the last remote call of the
\* position: no product fetch, plan lookup, material stock lookup,
\* organization lookup, create or apply call.
C3_SufficientStockSkips ==
  \A i \in Finished :
    StockAtLeast(obs[i]) =>
      /\ results[i].success = TRUE
      /\ results[i].error = None
      /\ results[i].processing_id = None
      /\ results[i].processing_name = None
      /\ results[i].message = <<"stock is sufficient", Unwrap(obs[i].current_stock),
                                min_stock_threshold>>
      /\ results[i].product =
           Some(ProductInfo(LineProductId(i), Unwrap(obs[i].product_name),
                            Unwrap(obs[i].quantity), Unwrap(obs[i].current_stock)))
      /\ LineOps(i) \subseteq {"find_store_by_name", "get_product_stock"}
      /\ LineCalls(i)[Len(LineCalls(i))] =
           [op |-> "get_product_stock", arg |-> LineProductId(i), line |-> i, outcome |-> "ok"]
      /\ Cardinality({k \in 1..Len(LineCalls(i)) : LineCalls(i)[k].op = "get_product_stock"}) = 1

\* a finished position whose observed stock equals the threshold, and one
\* whose observed stock exceeds it
C3_Witness ==
  /\ \E i \in Finished : obs[i].current_stock = Some(min_stock_threshold)
  /\ \E i \in Finished : StockAtLeast(obs[i]) /\ Unwrap(obs[i].current_stock) > min_stock_threshold

(***************************************************************************)
(* C4.                                                                     *)
(***************************************************************************)
\* C4, as stated: a finished position with stock below the threshold, a
\* resolved plan and no shortfall has a create call followed by an apply
\* call for the created id, and a result with success = true, the id and
\* name of the apply response and stock_before equal to the observed stock.
C4_ProductionSucceeds ==
  \A i \in Finished :
    (StockBelow(obs[i]) /\ BomResolved(obs[i]) /\ NoShortfall(obs[i])) =>
      /\ \E k, l \in 1..Len(LineCalls(i)) :
           /\ k < l
           /\ LineCalls(i)[k].op = "create_processing"
           /\ LineCalls(i)[l].op = "apply_processing"
           /\ IsSome(obs[i].processing)
           /\ LineCalls(i)[l].arg = Unwrap(obs[i].processing).id
      /\ results[i].success = TRUE
      /\ IsSome(obs[i].applied)
      /\ results[i].processing_id = Some(Unwrap(obs[i].applied).id)
      /\ results[i].processing_name = Some(Unwrap(obs[i].applied).name)
      /\ results[i].product # None
      /\ Unwrap(results[i].product).stock_before = Unwrap(obs[i].current_stock)

\* the calls of position i, finished or in progress, are in production order:
\* an apply call is the call right after a successful create call and targets
\* the id that create returned
ApplyFollowsCreate(i, c) ==
  \A l \in 1..Len(LineCalls(i)) :
    LineCalls(i)[l].op = "apply_processing" =>
      /\ l > 1
      /\ LineCalls(i)[l - 1].op = "create_processing"
      /\ LineCalls(i)[l - 1].outcome = "ok"
      /\ IsSome(c.processing)
      /\ LineCalls(i)[l].arg = Unwrap(c.processing).id
      /\ \E k \in 1..Len(processings) : processings[k].id = LineCalls(i)[l].arg

\* C4, amended: in every position an apply call directly follows a successful
\* create call and targets the id that create returned; when a position with
\* stock below the threshold, a resolved plan and no shortfall finishes, then
\* if the organization was resolved and the create and apply calls succeeded
\* its result is success = true with the id and name of the apply response
\* and stock_before equal to the stock observed at the start of the position,
\* and otherwise its result is success = false without processing id.
C4_ProductionSucceedsIfCallsDo ==
  /\ \A i \in Finished : ApplyFollowsCreate(i, obs[i])
  /\ lock # None => ApplyFollowsCreate(idx, cur)
  /\ \A i \in Finished :
       (StockBelow(obs[i]) /\ BomResolved(obs[i]) /\ NoShortfall(obs[i])) =>
         IF /\ IsSome(obs[i].organization)
            /\ \E k \in 1..Len(LineCalls(i)) :
                 LineCalls(i)[k].op = "create_processing" /\ LineCalls(i)[k].outcome = "ok"
            /\ \E k \in 1..Len(LineCalls(i)) :
                 LineCalls(i)[k].op = "apply_processing" /\ LineCalls(i)[k].outcome = "ok"
         THEN /\ results[i].success = TRUE
              /\ results[i].error = None
              /\ IsSome(obs[i].applied)
              /\ results[i].processing_id = Some(Unwrap(obs[i].applied).id)
              /\ results[i].processing_name = Some(Unwrap(obs[i].applied).name)
              /\ results[i].product =
                   Some(ProductInfo(LineProductId(i), Unwrap(obs[i].product_name),
                                    Unwrap(obs[i].quantity), Unwrap(obs[i].current_stock)))
         ELSE /\ results[i].success = FALSE
              /\ results[i].processing_id = None

\* a finished position whose processing was created and applied
C4_Witness ==
  \E i \in Finished :
    /\ IsSome(obs[i].applied)
    /\ results[i].success = TRUE
    /\ results[i].processing_name = Some(Unwrap(obs[i].applied).name)
    /\ Unwrap(obs[i].applied).name # Unwrap(obs[i].processing).name

(***************************************************************************)
(* C5.                                                                     *)
(***************************************************************************)
LineFailed(i) == \E c \in Range(LineCalls(i)) : c.outcome # "ok"

\* C5: for an applicable demand on the monitored store, there is one result
\* per processed position, in the order of the positions, each for the
\* product of its position; a position in which a remote call failed has a
\* result with success = false; and process_webhook returns Ok with exactly
\* one result per position of the demand.
C5_OneResultPerPosition ==
  OnMonitoredStore =>
    /\ Len(results) = Len(obs)
    /\ Len(results) <= NumPositions
    /\ pc \in {"positions", "pos_begin", "pos_stock", "pos_product", "pos_plan", "pos_check",
               "pos_org", "pos_create", "pos_apply"} => Len(results) = idx - 1
    /\ \A i \in 1..Len(results) :
         /\ IsSome(results[i].product)
         /\ Unwrap(results[i].product).id = LineProductId(i)
         /\ results[i].demand_id = Some(Unwrap(demand).id)
         /\ LineFailed(i) =>
              /\ results[i].success = FALSE
              /\ IsSome(results[i].error)
              /\ results[i].processing_id = None
    /\ IsSome(ret) =>
         /\ Unwrap(ret).ok
         /\ Unwrap(ret).val = results
         /\ Len(results) = NumPositions

\* process_webhook has returned for a demand of three positions, a remote
\* call failed in the first of them and the later ones have their results
C5_Witness ==
  /\ OnMonitoredStore /\ IsSome(ret)
  /\ NumPositions = 3 /\ Len(Unwrap(ret).val) = 3
  /\ LineFailed(1) /\ ~results[1].success
  /\ LineCalls(2) # <<>> /\ LineCalls(3) # <<>>

(***************************************************************************)
(* C6.                                                                     *)
(***************************************************************************)
\* C6: a finished position whose availability check reported a shortfall has
\* a result with success = false and the product snapshot with the observed
\* stock, no processing id, and no organization lookup, create or apply call;
\* and right after the position finishes, the error lists exactly the
\* materials of the plan whose required quantity exceeds the available
\* stock, in the order of the plan, each with required minus available.
C6_ShortfallIsReported ==
  \A i \in Finished :
    obs[i].available = Some(FALSE) =>
      /\ results[i].success = FALSE
      /\ results[i].processing_id = None
      /\ results[i].processing_name = None
      /\ results[i].product =
           Some(ProductInfo(LineProductId(i), Unwrap(obs[i].product_name),
                            Unwrap(obs[i].quantity), Unwrap(obs[i].current_stock)))
      /\ LineOps(i) \cap {"get_organization", "create_processing", "apply_processing"} = {}
      /\ IsSome(results[i].error)
      /\ results[i].message = Unwrap(results[i].error)
      /\ (i = Len(obs) /\ cur = obs[i]) =>
           LET short == Shortfalls(PlanRows(obs[i]), Len(PlanRows(obs[i])), Unwrap(obs[i].quantity))
           IN /\ short # <<>>
              /\ Unwrap(results[i].error) =
                   <<"not enough materials",
                     [k \in 1..Len(short) |-> <<short[k][1], "needed", short[k][2]>>]>>

\* a position has just finished with two materials short
C6_Witness ==
  \E i \in Finished :
    /\ obs[i].available = Some(FALSE)
    /\ i = Len(obs) /\ cur = obs[i]
    /\ Len(Unwrap(results[i].error)[2]) = 2

(***************************************************************************)
(* C7.                                                                     *)
(***************************************************************************)
\* the product's tech card attribute is absent or the empty string
TechCardAbsentOrEmpty(p) ==
  \/ RemoteProduct(p).attributes = None
  \/ \A k \in 1..Len(Unwrap(RemoteProduct(p).attributes)) :
       LET attr == Unwrap(RemoteProduct(p).attributes)[k]
       IN attr.name = tech_card_field_name => attr.value = Some([t |-> "String", v |-> ""])

ProductFetched(i) ==
  \E c \in Range(LineCalls(i)) : c.op = "get_product" /\ c.outcome = "ok"

\* C7: a finished position whose stock was below the threshold and whose
\* fetched product has no tech card attribute or an empty one has a result
\* with success = false, the error 'tech card not found', the product
\* snapshot with the observed stock and no processing id; the product fetch
\* is the last remote call of the position: no plan lookup, no material
\* stock lookup, no organization lookup, no create or apply call.
C7_MissingTechCardIsReported ==
  \A i \in Finished :
    (StockBelow(obs[i]) /\ ProductFetched(i) /\ TechCardAbsentOrEmpty(LineProductId(i))) =>
      /\ results[i].success = FALSE
      /\ results[i].error = Some(<<"tech card not found">>)
      /\ results[i].processing_id = None
      /\ results[i].processing_name = None
      /\ results[i].product =
           Some(ProductInfo(LineProductId(i), Unwrap(obs[i].product_name),
                            Unwrap(obs[i].quantity), Unwrap(obs[i].current_stock)))
      /\ LineOps(i) \subseteq {"find_store_by_name", "get_product_stock", "get_product"}
      /\ LineCalls(i)[Len(LineCalls(i))].op = "get_product"
      /\ Cardinality({k \in 1..Len(LineCalls(i)) : LineCalls(i)[k].op = "get_product_stock"}) = 1

\* a finished position whose product has an empty tech card attribute, and
\* one whose product has no attributes
C7_Witness ==
  /\ \E i \in Finished :
       /\ StockBelow(obs[i]) /\ ProductFetched(i)
       /\ RemoteProduct(LineProductId(i)).attributes = Some(<<StrAttr(tech_card_field_name, "")>>)
  /\ \E i \in Finished :
       /\ StockBelow(obs[i]) /\ ProductFetched(i)
       /\ RemoteProduct(LineProductId(i)).attributes = None

(***************************************************************************)
(* C8.                                                                     *)
(***************************************************************************)
OnOtherStore ==
  /\ IsSome(demand) /\ Unwrap(demand).applicable
  /\ IsSome(store_cache) /\ IsSome(Unwrap(store_cache).id)
  /\ IsSome(Unwrap(demand).store.id)
  /\ Unwrap(demand).store.id # Unwrap(store_cache).id

\* C8: for an applicable demand whose store id differs from the id of the
\* cached store, no position is processed, the only remote calls are the
\* fetch of the demand and the store search, and process_webhook returns Ok
\* with exactly one result, success = true, without product.
C8_OtherStoreIsSkipped ==
  (OnOtherStore /\ pc \notin {"pw_begin", "pw_applicable", "pw_store"}) =>
    /\ obs = <<>>
    /\ Ops \subseteq {"get_demand", "find_store_by_name"}
    /\ pc \in {"return", "idle"}
    /\ IsSome(ret)
    /\ Unwrap(ret).ok
    /\ Len(Unwrap(ret).val) = 1
    /\ Unwrap(ret).val[1].success = TRUE
    /\ Unwrap(ret).val[1].product = None
    /\ Unwrap(ret).val[1].processing_id = None
    /\ Unwrap(ret).val[1].error = None

\* process_webhook has returned for a demand of another store
C8_Witness == OnOtherStore /\ IsSome(ret) /\ NumPositions > 0

(***************************************************************************)
(* C9.                                                                     *)
(***************************************************************************)
\* C9: the step process_webhook takes on an event whose entity type is not
\* "demand" returns Ok with no results, issues no remote call and leaves the
\* caches and the remote state as they are.
C9_OtherEventIsIgnored ==
  [][(pc = "pw_begin" /\ event.entity_type # "demand" /\ pc' # pc) =>
       /\ pc' = "return"
       /\ ret' = Some(Ok(<<>>))
       /\ calls' = <<>>
       /\ results' = <<>>
       /\ UNCHANGED <<store_cache, organization_cache, stock, processings>>]_vars

\* process_webhook has returned for an event of entity type "supply"
C9_Witness == event.entity_type = "supply" /\ ret = Some(Ok(<<>>)) /\ pc = "return"

(***************************************************************************)
(* C10.                                                                    *)
(***************************************************************************)
\* C10: while check_materials_availability runs, and after it until the stock
\* changes, its list of missing materials is the list of the materials
\* looked at so far whose required quantity (quantity per unit times target
\* quantity) exceeds the available stock, in the order of the plan, each
\* with required minus available.
C10_ShortfallList ==
  /\ pc = "pos_check" =>
       cur.missing = Shortfalls(PlanRows(cur), cur.mi - 1, Unwrap(cur.quantity))
  /\ (IsSome(cur.available) /\ cur.applied = None) =>
       cur.missing = Shortfalls(PlanRows(cur), Len(PlanRows(cur)), Unwrap(cur.quantity))

\* the check has finished for a target quantity of 2 with one of the two
\* materials short
C10_Witness ==
  /\ IsSome(cur.available) /\ cur.applied = None
  /\ cur.quantity = Some(2)
  /\ Len(PlanRows(cur)) = 2
  /\ Len(cur.missing) = 1

(***************************************************************************)
(* C11.                                                                    *)
(***************************************************************************)
StockLookups(i) ==
  Cardinality({k \in 1..Len(LineCalls(i)) : LineCalls(i)[k].op = "get_product_stock"})
\* the check of the position has returned Ok
CheckReturned(c) == IsSome(c.available)
\* the plan has no materials to look at
NoMaterialRows(c) == BomResolved(c) /\ PlanRows(c) = <<>>

\* C11: whenever check_materials_availability has returned Ok, in a finished
\* position or in the current one, available is true if and only if the list
\* of missing materials is empty; and for a plan without materials (absent,
\* rows absent or no rows) it returns available = true and the only stock
\* lookup of the position is the one of the product itself.
C11_AvailableIffNothingMissing ==
  /\ \A c \in {cur} \cup Range(obs) :
       CheckReturned(c) => (Unwrap(c.available) <=> c.missing = <<>>)
  /\ \A i \in Finished :
       NoMaterialRows(obs[i]) => /\ obs[i].available = Some(TRUE)
                                 /\ StockLookups(i) = 1
  /\ (lock # None /\ pc \in {"pos_org", "pos_create", "pos_apply"} /\ NoMaterialRows(cur)) =>
       /\ cur.available = Some(TRUE)
       /\ StockLookups(idx) = 1

\* a finished position whose plan has materials without rows was found
\* available, and a later one of the same demand has a shortfall
C11_Witness ==
  /\ \E i \in Finished :
       /\ BomResolved(obs[i])
       /\ Unwrap(obs[i].processing_plan).materials = Some([rows |-> None])
       /\ obs[i].available = Some(TRUE)
  /\ \E i \in Finished : obs[i].available = Some(FALSE) /\ obs[i].missing # <<>>

(***************************************************************************)
(* C12.                                                                    *)
(***************************************************************************)
\* positions i < j of one demand ran the check on the same plan, target
\* quantity and store, and no processing was applied from i up to j, so the
\* remote stock was the same for both
SameCheck(i, j) ==
  /\ i < j
  /\ CheckReturned(obs[i]) /\ CheckReturned(obs[j])
  /\ obs[i].processing_plan = obs[j].processing_plan
  /\ obs[i].quantity = obs[j].quantity
  /\ obs[i].store = obs[j].store
  /\ \A k \in i..(j - 1) : obs[k].applied = None
SameCheckSameResult ==
  \A i, j \in Finished :
    SameCheck(i, j) => /\ obs[i].available = obs[j].available
                       /\ obs[i].missing = obs[j].missing

\* C12: no step of check_materials_availability changes the caches, the
\* remote stock or the remote processings; and two runs of the check on the
\* same plan, target quantity and store with the remote stock unchanged
\* between them return the same availability flag and the same list of
\* missing materials.
C12_CheckIsIdempotent ==
  [][/\ pc = "pos_check" =>
          UNCHANGED <<store_cache, organization_cache, stock, processings>>
     /\ SameCheckSameResult']_vars

\* the check ran twice on the same inputs and found a shortfall both times
C12_Witness ==
  \E i, j \in Finished : SameCheck(i, j) /\ obs[i].missing # <<>> /\ obs[j].missing # <<>>

(***************************************************************************)
(* C13.                                                                    *)
(***************************************************************************)
Running == {r \in Requests : req[r].phase = "running"}
InsideProcessWebhook == pc # "idle"

\* C13: at most one request is inside process_webhook; a request is inside
\* exactly while it holds the processor lock, from before process_webhook
\* starts until after it has returned; and the document being processed is
\* the one of the request that holds the lock.
C13_OneRequestInsideProcessor ==
  /\ Cardinality(Running) <= 1
  /\ \A r \in Requests : req[r].phase = "running" <=> lock = Some(r)
  /\ InsideProcessWebhook <=> lock # None
  /\ \A r \in Requests :
       (lock = Some(r) /\ IsSome(demand)) => Unwrap(demand).id = req[r].id

\* a webhook request waits for the lock while a manual request is creating a
\* processing
C13_Witness ==
  \E r, q \in Requests :
    /\ req[r].phase = "running" /\ req[r].kind = "manual"
    /\ req[q].phase = "waiting" /\ req[q].kind = "webhook"
    /\ pc = "pos_create"

(***************************************************************************)
(* C14.                                                                    *)
(***************************************************************************)
\* the operations of the remote calls a step issues
NewCalls ==
  IF Len(calls') > Len(calls)
  THEN {calls'[k].op : k \in (Len(calls) + 1)..Len(calls')}
  ELSE {}

\* C14: both caches start empty; a step taken while the store cache holds a
\* value leaves that value as it is and issues no find_store_by_name call,
\* and a step taken while the organization cache holds a value leaves that
\* value as it is and issues no get_organization call, whichever document the
\* step belongs to.
C14_CachesPopulateOnce ==
  /\ store_cache = None /\ organization_cache = None
  /\ [][/\ IsSome(store_cache) =>
             (store_cache' = store_cache /\ "find_store_by_name" \notin NewCalls)
        /\ IsSome(organization_cache) =>
             (organization_cache' = organization_cache /\ "get_organization" \notin NewCalls)]_vars

\* a later document is about to create a processing with the store and the
\* organization taken from the caches, without a lookup of either
C14_Witness ==
  /\ pc = "pos_create"
  /\ IsSome(store_cache) /\ IsSome(organization_cache)
  /\ "find_store_by_name" \notin Ops /\ "get_organization" \notin Ops
  /\ "get_demand" \in Ops

(***************************************************************************)
(* C15.                                                                    *)
(***************************************************************************)
\* the fetch of the document failed: the request failed or the backend has no
\* such document
FetchFailed ==
  \E c \in Range(calls) :
    c.op = "get_demand" /\ (c.outcome # "ok" \/ c.arg \notin DemandIds)
\* process_webhook has looked at a demand event that carries neither an
\* inline document nor a document id
NoDocument ==
  /\ pc # "pw_begin"
  /\ IsDemandEvent(event)
  /\ event.entity = None
  /\ (event.content = None \/ Unwrap(event.content).id = None)
\* the store search was issued and gave no store: it failed or found none
StoreUnresolved == "find_store_by_name" \in Ops /\ store_cache = None
\* the response the handler has built from the result of this invocation
Answered ==
  /\ IsSome(response) /\ IsSome(ret)
  /\ Unwrap(response).result = ret
  /\ Unwrap(response).kind \in {"webhook", "manual"}

\* C15: once the fetch of the document has failed, or the event turned out to
\* carry neither a document nor an id, or the store search failed or found no
\* store, process_webhook has returned Err: no position was processed, there
\* are no results, no create or apply call was issued, and the response the
\* handler builds is the single error response, 500 'error' with the error
\* text.
C15_DocumentErrorAborts ==
  (FetchFailed \/ NoDocument \/ StoreUnresolved) =>
    /\ pc \in {"return", "idle"}
    /\ IsSome(ret) /\ ~Unwrap(ret).ok
    /\ obs = <<>> /\ results = <<>>
    /\ Ops \cap {"get_product_stock", "create_processing", "apply_processing"} = {}
    /\ Answered =>
         Unwrap(response).resp =
           HttpResponse(500, "error",
                        [demand_id |-> event.content[1].id[1], message |-> Unwrap(ret).err])

\* a webhook request was answered after the store search found no store
C15_Witness ==
  /\ StoreUnresolved /\ Answered
  /\ \E c \in Range(calls) : c.op = "find_store_by_name" /\ c.outcome = "ok"

(***************************************************************************)
(* C16.                                                                    *)
(***************************************************************************)
\* position i asked the backend for the organization and got none: the
\* request failed or the list was empty
OrganizationUnresolved(i, c) == "get_organization" \in LineOps(i) /\ c.organization = None
OrganizationErrors == {<<"No organization found">>} \cup {HttpError(k) : k \in FailKinds}

\* C16, as stated: once a position has failed to resolve the organization,
\* process_webhook has returned Err and the position has no result.
C16_OrganizationFailureAborts ==
  OnMonitoredStore =>
    \A i \in 1..NumPositions :
      ("get_organization" \in LineOps(i) /\ organization_cache = None) =>
        /\ pc \in {"return", "idle"}
        /\ IsSome(ret) /\ ~Unwrap(ret).ok
        /\ Len(results) < i

\* C16, amended: a position that fails to resolve the organization finishes
\* with a result of its own, success = false with the error of the lookup
\* and no processing id, without a create or apply call; the positions after
\* it are processed, process_webhook returns Ok with one result per position
\* and the handler answers 200 'processed'.
C16_OrganizationFailureIsPerLine ==
  /\ \A i \in Finished :
       OrganizationUnresolved(i, obs[i]) =>
         /\ results[i].success = FALSE
         /\ IsSome(results[i].error)
         /\ Unwrap(results[i].error) \in OrganizationErrors
         /\ results[i].message = <<"position processing error">> \o Unwrap(results[i].error)
         /\ results[i].processing_id = None
         /\ LineOps(i) \cap {"create_processing", "apply_processing"} = {}
         /\ LineCalls(i)[Len(LineCalls(i))].op = "get_organization"
  /\ (\E i \in Finished : OrganizationUnresolved(i, obs[i])) =>
       /\ IsSome(ret) => (Unwrap(ret).ok /\ Len(Unwrap(ret).val) = NumPositions)
       /\ Answered =>
            Unwrap(response).resp =
              HttpResponse(200, "processed",
                           [demand_id |-> Unwrap(demand).id, results |-> results])

\* the first position found no organization, the second was processed after
\* it and the request was answered
C16_Witness ==
  /\ Len(obs) = 2 /\ OrganizationUnresolved(1, obs[1])
  /\ results[1].error = Some(<<"No organization found">>)
  /\ LineCalls(2) # <<>>
  /\ Answered

(***************************************************************************)
(* C17.                                                                    *)
(***************************************************************************)
\* the id the request named
RequestedId == Unwrap(Unwrap(event.content).id)

\* C17: the response a handler builds from the result of process_webhook is
\* 200 with status 'processed', the requested id and the results when the
\* result is Ok, whatever the success flags of the results, and 500 with
\* status 'error', the requested id and the error text when it is Err.
C17_ResponseFollowsResult ==
  Answered =>
    LET resp == Unwrap(response).resp
        r == Unwrap(ret)
    IN /\ r.ok => resp = HttpResponse(200, "processed",
                                      [demand_id |-> RequestedId, results |-> r.val])
       /\ ~r.ok => resp = HttpResponse(500, "error",
                                       [demand_id |-> RequestedId, message |-> r.err])
       /\ resp.http \in {200, 500}
       /\ resp.http = 500 <=> ~r.ok

\* a request was answered 200 'processed' although both positions of its
\* demand have results with success = false
C17_Witness ==
  /\ Answered /\ Unwrap(ret).ok
  /\ Len(Unwrap(ret).val) = 2
  /\ \A k \in 1..2 : ~Unwrap(ret).val[k].success
  /\ Unwrap(response).resp.http = 200

(***************************************************************************)
(* C18.                                                                    *)
(***************************************************************************)
Fetches == SelectSeq(calls, LAMBDA c : c.op = "get_demand")

\* C18: once process_webhook has resolved the document of a demand event: if
\* the event carries a document, that document is the one processed and no
\* fetch was issued; otherwise, if the event content has an id, the first
\* remote call is the fetch of that id, it is the only fetch, and the
\* document processed is the one fetched, or process_webhook has returned
\* Err if the fetch failed; and if there is neither, process_webhook has
\* returned Err without a remote call.
C18_DocumentResolution ==
  (pc # "pw_begin" /\ IsDemandEvent(event)) =>
    IF IsSome(event.entity)
    THEN /\ Fetches = <<>>
         /\ demand = event.entity
    ELSE IF IsSome(event.content) /\ IsSome(Unwrap(event.content).id)
    THEN /\ Len(Fetches) = 1
         /\ calls[1].op = "get_demand"
         /\ calls[1].arg = RequestedId
         /\ IF calls[1].outcome = "ok" /\ RequestedId \in DemandIds
            THEN demand = Some(RemoteDemand(RequestedId))
            ELSE /\ demand = None
                 /\ Len(calls) = 1
                 /\ IsSome(ret) /\ ~Unwrap(ret).ok
    ELSE /\ calls = <<>>
         /\ demand = None
         /\ IsSome(ret) /\ ~Unwrap(ret).ok

\* process_webhook has returned for an event that carries a document and
\* the id of another one, without a remote call
C18_Witness ==
  /\ IsDemandEvent(event) /\ IsSome(event.entity) /\ IsSome(event.content)
  /\ Unwrap(event.entity).id # RequestedId
  /\ IsSome(ret) /\ calls = <<>>

(***************************************************************************)
(* C19.                                                                    *)
(***************************************************************************)
\* the first row of a collection, none when it is absent or empty
FirstRow(rows) ==
  IF rows = None THEN None
  ELSE IF Unwrap(rows) = <<>> THEN None
  ELSE Some(Unwrap(rows)[1])
\* the answered searches for op among the calls cs
Answers(cs, op) == {c \in Range(cs) : c.op = op /\ c.outcome = "ok"}

\* C19: what a search returns is the first row of the collection the backend
\* answered with, and none when the collection is absent or empty: after an
\* answered store search the store cache holds the first row, after an
\* answered organization list the organization cache holds the first row,
\* and after an answered plan search the plan of the position is the first
\* row.
C19_FirstRowIsReturned ==
  /\ \A c \in Answers(calls, "find_store_by_name") : store_cache = FirstRow(c.rows)
  /\ \A c \in Answers(calls, "get_organization") : organization_cache = FirstRow(c.rows)
  /\ \A i \in Finished :
       \A c \in Answers(LineCalls(i), "find_processing_plan_by_name") :
         obs[i].processing_plan = FirstRow(c.rows)

(***************************************************************************)
(* C20.                                                                    *)
(***************************************************************************)
\* process_webhook has returned the single 'another store' result
AnotherStoreResult ==
  /\ IsSome(ret) /\ Unwrap(ret).ok
  /\ Len(Unwrap(ret).val) = 1
  /\ Unwrap(ret).val[1].message[1] = "demand of another store"
\* the store check is over for an applicable demand whose store has no id,
\* with the monitored store resolved
StoreWithoutId ==
  /\ pc \notin {"pw_begin", "pw_applicable", "pw_store"}
  /\ IsSome(demand) /\ Unwrap(demand).applicable
  /\ Unwrap(demand).store.id = None
  /\ IsSome(store_cache)

\* C20, as stated: the 'another store' result is returned only for a demand
\* whose store has an id that differs from the one of the monitored store;
\* and an applicable demand whose store has no id goes on to its positions:
\* process_webhook returns Ok with one result per position.
C20_NoStoreIdProceeds ==
  /\ AnotherStoreResult => OnOtherStore
  /\ (StoreWithoutId /\ IsSome(ret)) =>
       /\ ~AnotherStoreResult
       /\ Unwrap(ret).ok
       /\ Len(Unwrap(ret).val) = NumPositions

\* C20, amended: the 'another store' result is returned only for a demand
\* whose store has an id that differs from the one of the monitored store;
\* and an applicable demand whose store has no id is rejected once the
\* monitored store is resolved: process_webhook returns Err 'Store ID
\* missing', no position is processed and nothing but the fetch of the
\* demand and the store search was called.
C20_NoStoreIdIsRejected ==
  /\ AnotherStoreResult => OnOtherStore
  /\ StoreWithoutId =>
       /\ pc \in {"return", "idle"}
       /\ ret = Some(Err(<<"Store ID missing">>))
       /\ obs = <<>> /\ results = <<>>
       /\ Ops \subseteq {"get_demand", "find_store_by_name"}

\* a demand whose store has no id was rejected after the store search found
\* the monitored store, and the request was answered
C20_Witness ==
  /\ StoreWithoutId /\ "find_store_by_name" \in Ops
  /\ NumPositions > 0
  /\ Answered /\ Unwrap(response).resp.http = 500

(***************************************************************************)
(* C21.                                                                    *)
(***************************************************************************)
\* position i searched for the plan its product names and the backend
\* answered with no plan
PlanUnresolved(i, c) ==
  /\ BomNamed(c) /\ c.processing_plan = None
  /\ \E call \in Range(LineCalls(i)) :
       call.op = "find_processing_plan_by_name" /\ call.outcome = "ok"

\* C21: a finished position whose non-empty tech card name resolved to no
\* plan has the result of the error handler: success = false, the error
\* 'Processing plan not found' with the name, the message built from that
\* error, no processing id and a product snapshot with stock_before 0
\* whatever stock was observed; the plan search is the last remote call of
\* the position, so no material stock is looked up and nothing is created or
\* applied; and process_webhook returns Ok with one result per position.
C21_UnresolvedPlanIsLineError ==
  /\ \A i \in Finished :
       PlanUnresolved(i, obs[i]) =>
         /\ results[i].success = FALSE
         /\ results[i].error =
              Some(<<"Processing plan not found", Unwrap(obs[i].tech_card_name)>>)
         /\ results[i].message = <<"position processing error">> \o Unwrap(results[i].error)
         /\ results[i].processing_id = None
         /\ Unwrap(results[i].product).stock_before = 0
         /\ StockLookups(i) = 1
         /\ LineOps(i) \cap {"get_organization", "create_processing", "apply_processing"} = {}
         /\ LineCalls(i)[Len(LineCalls(i))].op = "find_processing_plan_by_name"
  /\ (\E i \in Finished : PlanUnresolved(i, obs[i])) =>
       (IsSome(ret) => (Unwrap(ret).ok /\ Len(Unwrap(ret).val) = NumPositions))

\* the first position named a plan the backend does not have, its observed
\* stock was 1, and the second position was processed to its end
C21_Witness ==
  /\ Len(obs) = 2 /\ IsSome(ret)
  /\ PlanUnresolved(1, obs[1])
  /\ obs[1].current_stock = Some(1)
  /\ ~results[1].success
  /\ LineCalls(2) # <<>>

(***************************************************************************)
(* C22.                                                                    *)
(***************************************************************************)
\* position i left process_position by none of its Ok returns (sufficient
\* stock, no tech card, shortfall, processing applied): it left by an error
ErrorHandled(i, c) ==
  /\ ~StockAtLeast(c)
  /\ c.tech_card_name # Some("")
  /\ c.available # Some(FALSE)
  /\ c.applied = None
LinePosition(i) == Unwrap(Unwrap(demand).positions).rows[i]

\* C22: the result of a finished position that left process_position by an
\* error has success = false, no processing id and no processing name, an
\* error, the message built from that error, and a product snapshot whose id
\* is the final segment of the position's product link, whose name is the
\* position's assortment name ('unknown' if it has none), whose quantity is
\* the position's and whose stock_before is 0.
C22_ErrorResultShape ==
  \A i \in Finished :
    ErrorHandled(i, obs[i]) =>
      /\ results[i].success = FALSE
      /\ results[i].processing_id = None
      /\ results[i].processing_name = None
      /\ IsSome(results[i].error)
      /\ results[i].message = <<"position processing error">> \o Unwrap(results[i].error)
      /\ results[i].product =
           Some([id |-> LineProductId(i),
                 name |-> IF LinePosition(i).assortment.name = None THEN "unknown"
                          ELSE Unwrap(LinePosition(i).assortment.name),
                 quantity |-> LinePosition(i).quantity,
                 stock_before |-> 0])

\* two positions left by an error: the first, without a name, after its stock
\* was observed to be 1, the second when its stock lookup failed
C22_Witness ==
  /\ Len(obs) = 2
  /\ ErrorHandled(1, obs[1]) /\ obs[1].current_stock = Some(1)
  /\ LinePosition(1).assortment.name = None
  /\ ErrorHandled(2, obs[2]) /\ obs[2].current_stock = None /\ LineFailed(2)

(***************************************************************************)
(* C23.                                                                    *)
(***************************************************************************)
\* the apply call of position i failed
ConfirmFailed(i) ==
  \E call \in Range(LineCalls(i)) : call.op = "apply_processing" /\ call.outcome # "ok"
NumLineCalls(i, op) == Len(SelectSeq(LineCalls(i), LAMBDA call : call.op = op))
ClientOps ==
  {"get_demand", "find_store_by_name", "get_product_stock", "get_product",
   "find_processing_plan_by_name", "get_organization", "create_processing",
   "apply_processing"}

\* C23: a finished position whose apply call failed issued exactly one
\* create call, which succeeded, and exactly one apply call, its last remote
\* call; the processing it created is still in the remote system and is
\* not applicable; its result has success = false and no processing id; no
\* call other than the client's operations (none of which deletes) was
\* issued; and process_webhook returns Ok with one result per position.
C23_FailedConfirmLeavesOrphan ==
  /\ Ops \subseteq ClientOps
  /\ \A i \in Finished :
       ConfirmFailed(i) =>
         /\ NumLineCalls(i, "create_processing") = 1
         /\ NumLineCalls(i, "apply_processing") = 1
         /\ LineCalls(i)[Len(LineCalls(i))].op = "apply_processing"
         /\ IsSome(obs[i].processing) /\ obs[i].applied = None
         /\ \E k \in 1..Len(processings) :
              /\ processings[k].id = Unwrap(obs[i].processing).id
              /\ ~processings[k].applicable
         /\ results[i].success = FALSE
         /\ results[i].processing_id = None
  /\ (\E i \in Finished : ConfirmFailed(i)) =>
       (IsSome(ret) => (Unwrap(ret).ok /\ Len(Unwrap(ret).val) = NumPositions))

\* the apply call of the first position failed, the next position was
\* processed and process_webhook has returned
C23_Witness ==
  /\ Len(obs) >= 2 /\ IsSome(ret)
  /\ ConfirmFailed(1)
  /\ LineCalls(2) # <<>>
  /\ Len(processings) >= 1 /\ ~processings[1].applicable

(***************************************************************************)
(* C24.                                                                    *)
(***************************************************************************)
\* the stock lookups of position i after the one for its own product: those
\* of check_materials_availability
MaterialLookups(i) ==
  LET lookups == SelectSeq(LineCalls(i), LAMBDA call : call.op = "get_product_stock")
  IN IF lookups = <<>> THEN <<>> ELSE Tail(lookups)
MaterialId(m) == LET href == m.product.href IN href[Len(href)]
\* the lookups so far are for the first materials of the plan, one each and
\* in the plan's order, and only the last of them can have failed
LookupsInOrder(i, c) ==
  LET ml == MaterialLookups(i)
      rows == PlanRows(c)
  IN /\ Len(ml) <= Len(rows)
     /\ \A k \in 1..Len(ml) :
          /\ ml[k].arg = MaterialId(rows[k])
          /\ k < Len(ml) => ml[k].outcome = "ok"
     /\ CheckReturned(c) =>
          /\ Len(ml) = Len(rows)
          /\ \A k \in 1..Len(ml) : ml[k].outcome = "ok"
MaterialLookupFailed(i) ==
  LET ml == MaterialLookups(i) IN ml # <<>> /\ ml[Len(ml)].outcome # "ok"

\* C24: check_materials_availability looks up the stock of the plan's
\* materials one by one in the plan's order, one lookup each, and has looked
\* up all of them when it returns a result; a position without a plan has
\* no such lookup; and when the lookup of a material failed, it is the last
\* remote call of the position, the check returned no result, the
\* position's result carries the error of the request, and the list of
\* missing materials does not name that material.
C24_MaterialLookupsInOrder ==
  /\ \A i \in Finished :
       /\ BomResolved(obs[i]) => LookupsInOrder(i, obs[i])
       /\ ~BomResolved(obs[i]) => MaterialLookups(i) = <<>>
       /\ MaterialLookupFailed(i) =>
            LET ml == MaterialLookups(i)
                failed == PlanRows(obs[i])[Len(ml)]
            IN /\ LineCalls(i)[Len(LineCalls(i))] = ml[Len(ml)]
               /\ obs[i].available = None
               /\ results[i].success = FALSE
               /\ results[i].error = Some(HttpError(ml[Len(ml)].outcome))
               /\ \A k \in 1..Len(obs[i].missing) :
                    obs[i].missing[k][1] # Unwrap(failed.product.name)
  /\ (lock # None /\ pc \in {"pos_check", "pos_org", "pos_create", "pos_apply"}) =>
       LookupsInOrder(idx, cur)

\* the plan of a finished position has two materials, the lookup of the
\* first failed and there was none for the second; the next position was
\* processed
C24_Witness ==
  \E i \in Finished :
    /\ BomResolved(obs[i]) /\ Len(PlanRows(obs[i])) = 2
    /\ Len(MaterialLookups(i)) = 1 /\ MaterialLookupFailed(i)
    /\ i < Len(obs)

(***************************************************************************)
(* C25.                                                                    *)
(***************************************************************************)
\* the entries of the report for product p on warehouse w: row and place in
\* the row, the product and the warehouse being named by the final segment
\* of the row's and of the entry's link
ReportEntries(rows, p, w) ==
  UNION { { <<i, j>> : j \in { j \in 1..Len(Unwrap(rows[i].stock_by_store)) :
                                 LET href == Unwrap(rows[i].stock_by_store)[j].href
                                 IN href[Len(href)] = w } }
          : i \in { i \in 1..Len(rows) :
                      /\ rows[i].href[Len(rows[i].href)] = p
                      /\ rows[i].stock_by_store # None } }
\* stock minus reserve of the first of these entries, 0 if there is none
FirstEntryStock(rows, p, w) ==
  LET E == ReportEntries(rows, p, w)
  IN IF E = {} THEN 0
     ELSE LET e == CHOOSE e \in E :
                     \A g \in E : e[1] < g[1] \/ (e[1] = g[1] /\ e[2] <= g[2])
              entry == Unwrap(rows[e[1]].stock_by_store)[e[2]]
          IN entry.stock - entry.reserve
\* the remote stock is as it was when the stock of c's product was read
StockAsRead(c) == IsSome(c.current_stock) /\ c.applied = None
ReportedStock(c) ==
  FirstEntryStock(Unwrap(RemoteStockReport(stock)), Unwrap(c.product_id),
                  Unwrap(Unwrap(c.store).id))

\* C25: the stock process_position has read for its product, while the
\* remote stock is as it was at the read, is stock minus reserve of the first
\* entry of the report for that product and the monitored warehouse, and 0
\* when the report has no such entry; this for the position being processed
\* and for the position finished last.
C25_StockOfFirstEntry ==
  /\ (lock # None /\ pc \in {"pos_product", "pos_plan", "pos_check", "pos_org",
                                "pos_create", "pos_apply"} /\ StockAsRead(cur)) =>
       Unwrap(cur.current_stock) = ReportedStock(cur)
  /\ (lock # None /\ pc = "positions" /\ obs # <<>> /\ StockAsRead(obs[Len(obs)])) =>
       Unwrap(obs[Len(obs)].current_stock) = ReportedStock(obs[Len(obs)])

\* three positions are finished and nothing was produced: the first read 0
\* for a product the report lists for another warehouse only, the second 0
\* for a product the report does not list, the third stock minus reserve of
\* the first of two entries for its product and the warehouse
C25_Witness ==
  LET rows == Unwrap(RemoteStockReport(stock))
  IN /\ lock # None /\ pc = "positions" /\ Len(obs) = 3 /\ processings = <<>>
     /\ obs[1].current_stock = Some(0)
     /\ ReportEntries(rows, Unwrap(obs[1].product_id), "s1") = {}
     /\ ReportEntries(rows, Unwrap(obs[1].product_id), "s2") # {}
     /\ obs[2].current_stock = Some(0)
     /\ \A w \in {"s1", "s2"} : ReportEntries(rows, Unwrap(obs[2].product_id), w) = {}
     /\ Cardinality(ReportEntries(rows, Unwrap(obs[3].product_id), "s1")) = 2
     /\ obs[3].current_stock = Some(stock["m2"] - Reserve("m2"))
     /\ Unwrap(obs[3].current_stock) # 9

(***************************************************************************)
(* C26.                                                                    *)
(***************************************************************************)
\* this step issued exactly one remote call: a stock lookup for product p
\* that succeeded
FreshStockLookup(p) ==
  /\ Len(calls') = Len(calls) + 1
  /\ calls'[Len(calls')].op = "get_product_stock"
  /\ calls'[Len(calls')].arg = p
  /\ calls'[Len(calls')].outcome = "ok"
\* what the report says of product p on the monitored warehouse now
StockNow(p) ==
  FirstEntryStock(Unwrap(RemoteStockReport(stock)), p, Unwrap(Unwrap(cur'.store).id))
\* the step that sets the stock of the position's product, on which the
\* comparison with the threshold is made
ProductStockDecided ==
  /\ pc = "pos_stock" /\ cur.current_stock = None /\ IsSome(cur'.current_stock)
\* the step that decides whether a material is missing
MaterialStockDecided ==
  /\ pc = "pos_check" /\ cur'.mi = cur.mi + 1

\* C26: the step that sets the stock of a position's product issues a stock
\* lookup for that product and the value it sets is what the report says at
\* that step; the step that decides on a material issues a stock lookup for
\* that material and the material is listed as missing by what the report
\* says at that step.
C26_StockReadFresh ==
  [][/\ ProductStockDecided =>
          /\ FreshStockLookup(Unwrap(cur'.product_id))
          /\ Unwrap(cur'.current_stock) = StockNow(Unwrap(cur'.product_id))
     /\ MaterialStockDecided =>
          LET m == PlanRows(cur)[cur.mi]
              need == m.quantity * Unwrap(cur.quantity)
              have == StockNow(MaterialId(m))
          IN /\ FreshStockLookup(MaterialId(m))
             /\ cur'.missing =
                  IF have < need
                  THEN Append(cur.missing, <<Unwrap(m.product.name), need - have>>)
                  ELSE cur.missing]_vars

\* the first position read 0 and its processing of 2 was applied; the second
\* position, of the same product, read 2
C26_Witness ==
  /\ Len(obs) = 2
  /\ obs[1].current_stock = Some(0) /\ IsSome(obs[1].applied) /\ obs[1].quantity = Some(2)
  /\ obs[2].product_id = obs[1].product_id
  /\ obs[2].current_stock = Some(2)
  /\ StockLookups(2) = 1

(***************************************************************************)
(* C27.                                                                    *)
(***************************************************************************)
\* the remote calls made inside process_position
PositionCalls == SelectSeq(calls, LAMBDA call : call.line > 0)

\* C27: for a demand whose positions are processed, the remote calls of the
\* positions are issued in the order of the positions; the position of the
\* last call is the one whose result was pushed last or the one after it, so
\* no call of position i + 1 is issued before the result of position i
\* exists and none for position i once position i + 1 has begun; and result
\* i is for the product, with the quantity, of position i.
C27_PositionsInOrder ==
  OnMonitoredStore =>
    /\ \A k, l \in 1..Len(PositionCalls) :
         k < l => PositionCalls[k].line <= PositionCalls[l].line
    /\ \A call \in Range(PositionCalls) : call.line <= Len(results) + 1
    /\ PositionCalls # <<>> => Len(results) <= PositionCalls[Len(PositionCalls)].line
    /\ \A i \in 1..Len(results) :
         /\ IsSome(results[i].product)
         /\ Unwrap(results[i].product).id = LineProductId(i)
         /\ Unwrap(results[i].product).quantity = LinePosition(i).quantity
         /\ LineCalls(i) # <<>>

\* process_webhook has returned three results for three positions of
\* different products, each of which made remote calls
C27_Witness ==
  /\ OnMonitoredStore /\ IsSome(ret) /\ Len(results) = 3
  /\ Cardinality({LineProductId(i) : i \in 1..3}) = 3
  /\ \A i \in 1..3 : Len(LineCalls(i)) >= 1
  /\ Len(LineCalls(1)) >= 3

(***************************************************************************)
(* C28.                                                                    *)
(***************************************************************************)
\* C28: a remote call that failed, by a transport failure, a non-success
\* status or a body that cannot be decoded, is the last call of its
\* position, or of the invocation if it was made outside the positions: the
\* operation is not issued again and nothing else is asked for that step.
\* Outside the positions process_webhook returns the error of the request;
\* inside, the position's result carries it.
C28_NoRetry ==
  \A k \in 1..Len(calls) :
    calls[k].outcome # "ok" =>
      /\ calls[k].outcome \in FailKinds
      /\ k < Len(calls) => calls[k + 1].line > calls[k].line
      /\ calls[k].line = 0 =>
           /\ k = Len(calls)
           /\ ret = Some(Err(HttpError(calls[k].outcome)))
      /\ calls[k].line > 0 =>
           /\ calls[k].line \in Finished
           /\ results[calls[k].line].error = Some(HttpError(calls[k].outcome))
           /\ ~results[calls[k].line].success

\* the answer to a call of the first position could not be decoded, and the
\* second position has made its calls
C28_Witness ==
  /\ Len(obs) >= 2 /\ LineCalls(2) # <<>>
  /\ \E k \in 1..Len(calls) :
       /\ calls[k].line = 1 /\ calls[k].outcome = "decode"
       /\ calls[k].op = "find_processing_plan_by_name"
       /\ calls[k + 1].line = 2

(***************************************************************************)
(* C29.                                                                    *)
(***************************************************************************)
\* the request of the processing position i created is the request of an
\* applied processing of an earlier run: same demand, plan, store,
\* organization and quantity
ProducedBefore(i) ==
  /\ IsSome(obs[i].processing)
  /\ \E k, l \in 1..Len(processings) :
       /\ k < l
       /\ processings[l].id = Unwrap(obs[i].processing).id
       /\ processings[k].request = processings[l].request
       /\ processings[k].applicable

\* C29: whatever processings earlier runs have left, a demand on the
\* monitored store has each of its positions processed, and a position
\* whose observed stock is below the threshold, whose plan is resolved,
\* whose materials suffice, whose organization is resolved and whose remote
\* calls all succeed has a processing of its own created and applied.
C29_NoDuplicateGuard ==
  /\ (OnMonitoredStore /\ IsSome(ret) /\ pc \notin {"pw_begin", "pw_applicable", "pw_store"}) =>
       /\ Unwrap(ret).ok
       /\ Len(Unwrap(ret).val) = NumPositions
       /\ Len(obs) = NumPositions
  /\ \A i \in Finished :
       ( /\ StockBelow(obs[i]) /\ BomResolved(obs[i]) /\ NoShortfall(obs[i])
         /\ IsSome(obs[i].organization) /\ ~LineFailed(i) ) =>
         /\ IsSome(obs[i].applied)
         /\ results[i].success
         /\ results[i].processing_id = Some(Unwrap(obs[i].processing).id)
         /\ Cardinality({k \in 1..Len(processings) :
                           processings[k].id = Unwrap(obs[i].processing).id}) = 1
         /\ \E k \in 1..Len(processings) :
              /\ processings[k].id = Unwrap(obs[i].processing).id
              /\ processings[k].applicable

\* the same document was processed a second time: its position found the
\* stock still below the threshold and a second processing with the request
\* of the first was created and applied
C29_Witness ==
  /\ IsSome(ret) /\ Len(obs) = 2
  /\ ProducedBefore(1)
  /\ StockBelow(obs[1]) /\ IsSome(obs[1].applied) /\ results[1].success
  /\ Cardinality({k \in 1..Len(processings) :
                    /\ processings[k].applicable
                    /\ processings[k].request.quantity = Unwrap(obs[1].quantity)
                    /\ processings[k].request.processing_plan =
                         Unwrap(obs[1].processing_plan).href}) = 2

(***************************************************************************)
(* C30.                                                                    *)
(***************************************************************************)
\* the string form of an attribute's value, if it has one: the string, the
\* number or the truth value written out, or the name of the entity
StringForm(attr) ==
  IF attr.value = None THEN None
  ELSE LET value == Unwrap(attr.value)
       IN IF value.t = "String" THEN Some(value.v)
          ELSE IF value.t = "Number" THEN Some(ToString(value.v))
          ELSE IF value.t = "Boolean" THEN Some(IF value.v THEN "true" ELSE "false")
          ELSE value.v.name
\* the name read from the first attribute of the configured name that has a
\* string form; the empty string without attributes or without such a one
TechCardNameOf(p) ==
  LET attributes == RemoteProduct(p).attributes
  IN IF attributes = None THEN ""
     ELSE LET named == {k \in 1..Len(Unwrap(attributes)) :
                          /\ Unwrap(attributes)[k].name = tech_card_field_name
                          /\ StringForm(Unwrap(attributes)[k]) # None}
          IN IF named = {} THEN ""
             ELSE Unwrap(StringForm(Unwrap(attributes)[CHOOSE k \in named :
                                                         \A l \in named : k <= l]))

\* C30: once the product of a position is fetched, its tech card name is
\* determined, so find_tech_card_name returned Ok, and it is the string form
\* of the value of the product's attribute of the configured name, the first
\* that has one, and the empty string when the product has no attributes or
\* none of that name; this for finished positions and for the one being
\* processed.
C30_TechCardNameFromAttribute ==
  /\ \A i \in Finished :
       ProductFetched(i) =>
         obs[i].tech_card_name = Some(TechCardNameOf(LineProductId(i)))
  /\ (lock # None /\ pc \in {"pos_plan", "pos_check", "pos_org", "pos_create", "pos_apply"}) =>
       cur.tech_card_name = Some(TechCardNameOf(Unwrap(cur.product_id)))

\* the first position's product has an attribute of the configured name
\* without a value, one that refers to a nameless entity and then the
\* number 7: the name read is "7"; the second position's product has another
\* attribute before the one of the configured name: the name read is "TC1"
C30_Witness ==
  /\ Len(obs) = 2
  /\ ProductFetched(1) /\ obs[1].tech_card_name = Some("7")
  /\ Len(Unwrap(RemoteProduct(LineProductId(1)).attributes)) = 4
  /\ ProductFetched(2) /\ obs[2].tech_card_name = Some("TC1")

(***************************************************************************)
(* C31.                                                                    *)
(***************************************************************************)
\* the product link of position i ends in an empty segment: no product id
\* can be derived from it
NoProductId(i) == LineProductId(i) = ""

\* C31, as stated: a position of a processed demand from whose product link
\* no product id can be derived issues no stock lookup and no product fetch,
\* and once it is finished its result is the failure 'Cannot extract product
\* ID from assortment href'.
C31_NoProductIdIsRejected ==
  OnMonitoredStore =>
    \A i \in 1..NumPositions :
      NoProductId(i) =>
        /\ LineOps(i) \cap {"get_product_stock", "get_product"} = {}
        /\ i \in Finished =>
             /\ ~results[i].success
             /\ results[i].error = Some(<<"Cannot extract product ID from assortment href">>)

\* what the code does with such a position: the empty string is taken for
\* the product id, its stock is looked up and found to be 0, and the product
\* of that id is fetched; the position fails by the error of that fetch
C31_EmptyProductIdIsLookedUp ==
  \E i \in Finished :
    /\ OnMonitoredStore /\ NoProductId(i)
    /\ obs[i].product_id = Some("")
    /\ obs[i].current_stock = Some(0)
    /\ LineOps(i) = {"get_product_stock", "get_product"}
    /\ ~results[i].success
    /\ results[i].error # Some(<<"Cannot extract product ID from assortment href">>)

(***************************************************************************)
(* C32.                                                                    *)
(***************************************************************************)
\* the spellings that differ from the trigger kind in letter case at most
TriggerSpellings == {"demand", "Demand", "DEMAND"}
\* this step answers a webhook with 'ignored'
AnswersIgnored ==
  /\ response' # response /\ IsSome(response')
  /\ Unwrap(response').kind = "webhook" /\ Unwrap(response').result = None
\* this step takes the webhook request of slot r on to the processor
TakesWebhook(r) ==
  /\ req[r].phase = "idle" /\ req'[r].phase = "waiting" /\ req'[r].kind = "webhook"

\* C32: the step that answers a webhook with 'ignored' answers with status
\* 200, for an entity type that is not a spelling of the trigger kind, and
\* leaves the lock, the requests, process_webhook's frame, the caches and
\* the remote state as they are; and a webhook that is taken on to the
\* processor carries the trigger kind.
C32_OtherTypeIsIgnored ==
  [][/\ AnswersIgnored =>
          /\ Unwrap(response').resp.http = 200
          /\ Unwrap(response').resp.status = "ignored"
          /\ Unwrap(response').resp.body[2] \notin TriggerSpellings
          /\ UNCHANGED <<lock, req, pc, event, demand, idx, results, cur, ret, calls, obs,
                         store_cache, organization_cache, stock, processings, inv_left>>
     /\ \A r \in Requests :
          TakesWebhook(r) => /\ req'[r].event.entity_type = "demand"
                             /\ UNCHANGED <<response, lock>>]_vars

\* a webhook of type "Supply" has been answered with 'ignored' while the
\* webhook of another request, sent with type "Demand", holds the lock and
\* is in the middle of a position
C32_Witness ==
  /\ IsSome(response)
  /\ Unwrap(response).kind = "webhook" /\ Unwrap(response).result = None
  /\ Unwrap(response).resp = HttpResponse(200, "ignored", <<"Not a demand event", "Supply">>)
  /\ IsSome(lock) /\ pc = "pos_create"
  /\ req[Unwrap(lock)].kind = "webhook" /\ req[Unwrap(lock)].phase = "running"
  /\ Unwrap(response).to # Unwrap(lock)

(***************************************************************************)
(* C33.                                                                    *)
(***************************************************************************)
\* the place of the first call of operation op among the calls of position i,
\* 0 if there is none
FirstLineCall(i, op) ==
  LET K == {k \in 1..Len(LineCalls(i)) : LineCalls(i)[k].op = op}
  IN IF K = {} THEN 0 ELSE CHOOSE k \in K : \A l \in K : k <= l

\* C33: a step that asks the backend for the organization, or that changes
\* the organization cache, is the organization step of a position whose
\* availability check has returned 'available' and for which no processing
\* has been created or asked for; and a step that issues a create call
\* belongs to a position whose check returned 'available' and whose
\* organization is resolved.  So a document none of whose positions passes
\* the check issues no organization lookup and leaves the cache as it is.
C33_OrganizationAfterCheck ==
  [][/\ ("get_organization" \in NewCalls \/ organization_cache' # organization_cache) =>
          /\ pc = "pos_org"
          /\ cur.available = Some(TRUE)
          /\ cur.processing = None
          /\ "create_processing" \notin LineOps(idx)
     /\ "create_processing" \in NewCalls =>
          /\ pc = "pos_create"
          /\ cur.available = Some(TRUE)
          /\ IsSome(cur.organization)]_vars

\* process_webhook has returned for two positions: the first found no plan
\* and issued no organization lookup, the second passed the check, looked
\* the organization up after its last stock lookup and then issued its
\* create call
C33_Witness ==
  /\ IsSome(ret) /\ Len(obs) = 2
  /\ PlanUnresolved(1, obs[1]) /\ "get_organization" \notin LineOps(1)
  /\ obs[2].available = Some(TRUE)
  /\ FirstLineCall(2, "get_organization") = Len(LineCalls(2)) - 2
  /\ FirstLineCall(2, "create_processing") = Len(LineCalls(2)) - 1
  /\ LineCalls(2)[FirstLineCall(2, "get_organization") - 1].op = "get_product_stock"
  /\ IsSome(organization_cache)

(***************************************************************************)
(* C34.                                                                    *)
(***************************************************************************)
\* the positions that have issued calls, with their locals: the finished
\* ones and the one being processed
LineLocals(i) == IF i \in Finished THEN obs[i] ELSE cur
Lines == {c.line : c \in Range(calls)} \ {0}
NumCalls(op) == Len(SelectSeq(calls, LAMBDA call : call.op = op))
NumCallsOk(op) ==
  Len(SelectSeq(calls, LAMBDA call : call.op = op /\ call.outcome = "ok"))

\* C34: in every invocation, whatever documents came before, a position
\* issues at most one create call and at most one apply call; an apply call
\* comes after a create call of the same position that succeeded, and its
\* target is the id that create call returned, the id of exactly one
\* processing in the remote system, which was created with the request of
\* that create call; and there are no more apply calls than successful
\* create calls.
C34_ConfirmFollowsItsCreate ==
  /\ NumCalls("apply_processing") <= NumCallsOk("create_processing")
  /\ \A i \in Lines :
       LET create == FirstLineCall(i, "create_processing")
           apply == FirstLineCall(i, "apply_processing")
       IN /\ NumLineCalls(i, "create_processing") <= 1
          /\ NumLineCalls(i, "apply_processing") <= 1
          /\ apply # 0 =>
               /\ create # 0 /\ create < apply
               /\ LineCalls(i)[create].outcome = "ok"
               /\ IsSome(LineLocals(i).processing)
               /\ LineCalls(i)[apply].arg = Unwrap(LineLocals(i).processing).id
               /\ Cardinality({k \in 1..Len(processings) :
                                 /\ processings[k].id = LineCalls(i)[apply].arg
                                 /\ processings[k].request = LineCalls(i)[create].arg}) = 1
               /\ Cardinality({k \in 1..Len(processings) :
                                 processings[k].id = LineCalls(i)[apply].arg}) = 1

\* a later document has created and applied a processing of its own while
\* the processing of an earlier document is in the remote system
C34_Witness ==
  /\ Len(processings) >= 2 /\ IsSome(lock)
  /\ \E i \in Finished :
       /\ IsSome(obs[i].applied)
       /\ FirstLineCall(i, "apply_processing") # 0
       /\ LineCalls(i)[FirstLineCall(i, "apply_processing")].arg = processings[2].id
       /\ NumCalls("create_processing") = 1
       /\ processings[1].applicable

(***************************************************************************)
(* C35.                                                                    *)
(***************************************************************************)
\* the search this step issued, if it issued one
NewSearch == calls'[Len(calls')]
\* the search failed, or its answer has no row
FoundNothing(call) ==
  call.outcome # "ok" \/ call.rows = None \/ Unwrap(call.rows) = <<>>
\* the error of a search that found nothing: of the request, or the getter's
SearchError(call, notfound) ==
  IF call.outcome # "ok" THEN HttpError(call.outcome) ELSE notfound
\* the cache holds now a row of the answer to the search
CachedFrom(cache, call) ==
  /\ call.outcome = "ok" /\ IsSome(call.rows)
  /\ \E k \in 1..Len(Unwrap(call.rows)) : cache = Some(Unwrap(call.rows)[k])
\* what holds of the store cache in every step: a step that needs the store
\* while the cache is empty issues the search; a search that fails or finds
\* nothing leaves the cache empty and process_webhook returns its error; the
\* cache changes only in a step that issued a search, to a row of its answer
StoreCacheStep ==
  /\ (pc \in {"pw_store", "pos_begin"} /\ store_cache = None /\ pc' # pc) =>
       "find_store_by_name" \in NewCalls
  /\ "find_store_by_name" \in NewCalls =>
       /\ store_cache = None
       /\ FoundNothing(NewSearch) =>
            /\ store_cache' = None
            /\ ret' = Some(Err(SearchError(NewSearch, <<"Store not found", store_name>>)))
       /\ ~FoundNothing(NewSearch) => CachedFrom(store_cache', NewSearch)
  /\ store_cache' # store_cache =>
       ("find_store_by_name" \in NewCalls /\ CachedFrom(store_cache', NewSearch))
\* the same of the organization cache, but for what becomes of the error
OrganizationCacheStep(Failure(_)) ==
  /\ (pc = "pos_org" /\ organization_cache = None /\ pc' # pc) =>
       "get_organization" \in NewCalls
  /\ "get_organization" \in NewCalls =>
       /\ organization_cache = None
       /\ FoundNothing(NewSearch) =>
            /\ organization_cache' = None
            /\ Failure(SearchError(NewSearch, <<"No organization found">>))
       /\ ~FoundNothing(NewSearch) => CachedFrom(organization_cache', NewSearch)
  /\ organization_cache' # organization_cache =>
       ("get_organization" \in NewCalls /\ CachedFrom(organization_cache', NewSearch))
\* process_webhook returns the error
InvocationFails(e) == ret' = Some(Err(e))
\* the position gets a result with the error and process_webhook goes on
LineFails(e) ==
  /\ ret' = None /\ pc' = "positions"
  /\ Len(results') = Len(results) + 1
  /\ ~results'[Len(results')].success
  /\ results'[Len(results')].error = Some(e)

\* C35, as stated: a search for the store or for the organization that
\* fails or finds nothing leaves the cache empty and process_webhook returns
\* the error; a later step that needs the value issues the search again; a
\* cache is written only with a row of a successful search.
C35_FailedLookupAbortsUncached ==
  [][StoreCacheStep /\ OrganizationCacheStep(InvocationFails)]_vars

\* C35, amended: the same, except that after a search for the organization
\* that fails or finds nothing it is the position that gets a result with
\* the error, success = false, and process_webhook goes on.
C35_FailedLookupIsNotCached ==
  [][StoreCacheStep /\ OrganizationCacheStep(LineFails)]_vars

\* the first of two invocations fetched its document and found no store, no
\* request having failed; the second has issued the search again, found the
\* store and is about to create a processing
C35_Witness ==
  /\ inv_left = MaxDocuments - 2 /\ fail_left = MaxFailures
  /\ IsSome(lock) /\ pc = "pos_create"
  /\ "find_store_by_name" \in Ops /\ "get_demand" \in Ops
  /\ IsSome(store_cache)

(***************************************************************************)
(* C36.                                                                    *)
(***************************************************************************)
\* request r waits for the processor lock
Waits(r) == req[r].phase = "waiting"
\* request r holds the lock
Holds(r) == lock = Some(r)
\* process_webhook has returned to request r, Ok (ok) or Err (~ok)
ReturnedTo(r, ok) ==
  /\ Holds(r) /\ pc = "return" /\ IsSome(ret) /\ Unwrap(ret).ok = ok
\* request r has its response, built from the result, and the lock is free
Released(r, ok) ==
  /\ lock = None /\ req[r].phase = "idle"
  /\ IsSome(response) /\ Unwrap(response).to = r
  /\ Unwrap(response).resp.http = (IF ok THEN 200 ELSE 500)

\* C36: when every remote call returns, every request that waits for the
\* lock gets it and is answered; a process_webhook that was entered returns,
\* and after it returned the lock is free; the lock is given up only after
\* process_webhook returned, Ok or Err, and then the lock is free and the
\* request has the response of that outcome.
C36_EveryRequestIsServed ==
  /\ \A r \in {1, 2} : Waits(r) ~> Holds(r)
  /\ IsSome(lock) ~> (pc = "return" /\ IsSome(ret))
  /\ pc = "return" ~> lock = None
  /\ [][\A r \in {1, 2} : (Holds(r) /\ ~Holds(r)') =>
          \E ok \in BOOLEAN : ReturnedTo(r, ok) /\ Released(r, ok)']_vars

\* both requests were in flight at once; the one in the second slot was the
\* last to be answered, with the error its process_webhook returned, and
\* the lock is free
C36_Witness ==
  /\ inv_left = MaxDocuments - 2
  /\ req[1].phase = "idle"
  /\ Released(2, FALSE)
  /\ IsSome(ret) /\ ~Unwrap(ret).ok

====
